---- MODULE Spec2Model ----
(***************************************************************************)
(* Ownership graph of mujoco_blueprints: NodeThing.attach / detach / copy, *)
(* role-collection assignment, the CyclicalThing migration protocol that   *)
(* rewires Camera.target across a deep copy, and World.build / unbuild.    *)
(*                                                                         *)
(* The object graph is one record, the heap.  Node ids are REGISTER ids    *)
(* plus one; 0 stands for Python's None.  An operation is a function from  *)
(* heap to heap; a raised exception is the field err, and every operation  *)
(* leaves a heap with err set untouched, which is how the exception        *)
(* propagates through the callers while the mutations made before it stay. *)
(***************************************************************************)
EXTENDS Integers, Sequences, FiniteSets, TLC

\* Size of the node pool: no operation allocates past it.
MaxNodes == 10
\* Number of user-level operations in one behaviour.
MaxOps == 2
\* Depth of nested Python calls after which the interpreter raises RecursionError.
RecursionLimit == 40

None == 0
Nodes == 1..MaxNodes

\* heap: the object graph.  hist: the operations so far, each with its
\* arguments, its outcome and the heap it started from.
VARIABLES heap, hist
vars == <<heap, hist>>

NoChildren == [joints |-> <<>>, cameras |-> <<>>, bodies |-> <<>>]
NoMigrations == [parent |-> None, target |-> None]

\* A label or an exposed name is the sequence of its parts: the string
\* "rock_(1)_(0)" is <<"rock", 1, 0>>, and appending "_(i)" appends i.
\* _name_scope = None, and a NameScope with its _name and its descendants.
NoScope == [set |-> FALSE, name |-> <<>>, descendants |-> <<>>]
\* A TypeScope without descendants, and a NameManager without TypeScopes.
NoTypeScope == [descendants |-> <<>>, name_scopes |-> <<>>]
NoTypeScopes == [Joint |-> NoTypeScope, Camera |-> NoTypeScope, Body |-> NoTypeScope]

\* A Python value: its class t, its number or node id v, the name f of a
\* bound method, and the items of a list or the elements of a View.
Value(t, v, f, items) == [t |-> t, v |-> v, f |-> f, items |-> items]
\* The marker for an attribute the object does not have.
Absent == Value("absent", 0, "", <<>>)
NoneValue == Value("NoneType", 0, "", <<>>)
IntValue(n) == Value("int", n, "", <<>>)
FloatValue(n) == Value("float", n, "", <<>>)
BoolValue(b) == Value("bool", IF b THEN 1 ELSE 0, "", <<>>)
ListValue(items) == Value("list", 0, "", items)

\* The heap before any Thing has been constructed.
EmptyHeap ==
    [n                 |-> 0,
     kind              |-> [x \in Nodes |-> "none"],
     name              |-> [x \in Nodes |-> <<>>],
     name_scope        |-> [x \in Nodes |-> NoScope],
     type_scopes       |-> [x \in Nodes |-> NoTypeScopes],
     parent            |-> [x \in Nodes |-> None],
     children          |-> [x \in Nodes |-> NoChildren],
     target            |-> [x \in Nodes |-> None],
     targeting_cameras |-> [x \in Nodes |-> <<>>],
     MIGRATED          |-> [x \in Nodes |-> FALSE],
     COPY              |-> [x \in Nodes |-> None],
     MIGRATIONS        |-> [x \in Nodes |-> NoMigrations],
     IGNORE_CHECKS     |-> [x \in Nodes |-> FALSE],
     built             |-> [x \in Nodes |-> FALSE],
     asset             |-> [x \in Nodes |-> None],
     cache             |-> [x \in Nodes |-> None],
     references_of     |-> [x \in Nodes |-> x],
     references        |-> [x \in Nodes |-> {}],
     freeze            |-> [x \in Nodes |-> FALSE],
     vertecies         |-> [x \in Nodes |-> None],
     fps               |-> [x \in Nodes |-> Absent],
     copy_root         |-> None,
     ret               |-> None,
     err               |-> "OK"]

Ok(h) == h.err = "OK"
Raise(h, e) == [h EXCEPT !.err = e]
Live(h) == 1..h.n

(***************************************************************************)
(* Sequence helpers: Python's `x in list`, list.remove, and the duplicate  *)
(* elimination of NodeThing.descendants.                                   *)
(***************************************************************************)
Contains(s, x) == \E i \in 1..Len(s) : s[i] = x

FirstIndex(s, x) == CHOOSE i \in 1..Len(s) : s[i] = x /\ \A j \in 1..(i-1) : s[j] # x

Remove(s, x) ==
    IF ~Contains(s, x) THEN s
    ELSE LET k == FirstIndex(s, x)
         IN [i \in 1..(Len(s)-1) |-> IF i < k THEN s[i] ELSE s[i+1]]

RECURSIVE Dedupe(_)
Dedupe(s) ==
    IF s = <<>> THEN <<>>
    ELSE LET front == Dedupe(SubSeq(s, 1, Len(s)-1))
             x == s[Len(s)]
         IN IF Contains(front, x) THEN front ELSE Append(front, x)

(***************************************************************************)
(* Kinds and role schemas.                                                 *)
(***************************************************************************)
IsNodeThing(h, x) == h.kind[x] \in {"World", "Body", "Joint"}
IsCyclical(h, x) == h.kind[x] = "Camera"

\* The modelled roles of _CHILDREN, in the dictionary's order.
Roles(k) ==
    CASE k = "Body" -> <<"joints", "cameras", "bodies">>
      [] k = "World" -> <<"cameras", "bodies">>
      [] OTHER -> <<>>

RoleKind(r) ==
    CASE r = "joints" -> "Joint"
      [] r = "cameras" -> "Camera"
      [] r = "bodies" -> "Body"

\* The role of receiver kind pk that takes a child of kind ck, "" when none does.
RoleFor(pk, ck) ==
    LET rs == Roles(pk)
    IN IF \E i \in 1..Len(rs) : RoleKind(rs[i]) = ck
       THEN rs[CHOOSE i \in 1..Len(rs) : RoleKind(rs[i]) = ck]
       ELSE ""

(***************************************************************************)
(* Root, path and the finalized query.                                     *)
(***************************************************************************)
RECURSIVE PathFrom(_, _, _)
PathFrom(h, x, fuel) ==
    IF h.parent[x] = None \/ fuel = 0 THEN <<x>>
    ELSE Append(PathFrom(h, h.parent[x], fuel - 1), x)

path(h, x) == PathFrom(h, x, MaxNodes)

root(h, x) == Head(path(h, x))

_launched(h, x) == h.kind[root(h, x)] = "World" /\ h.built[root(h, x)]

_disjunct(h, a, b) == a = None \/ b = None \/ root(h, a) # root(h, b)

RECURSIVE Flatten(_)
Flatten(ss) == IF ss = <<>> THEN <<>> ELSE Head(ss) \o Flatten(Tail(ss))

\* descendants['cameras']['descendants']: own cameras, then those of the child
\* bodies in order, first occurrences only.
RECURSIVE DescendantCameras(_, _, _)
DescendantCameras(h, x, fuel) ==
    IF fuel = 0 THEN <<>>
    ELSE LET bs == h.children[x].bodies
         IN Dedupe(h.children[x].cameras \o
                   Flatten([i \in 1..Len(bs) |-> DescendantCameras(h, bs[i], fuel - 1)]))

descendants(h, x) == DescendantCameras(h, x, MaxNodes)

\* A constructor call: BaseThing.__init__ takes the next REGISTER id and sets
\* name and parent; the kind's own __init__ leaves every collection empty.
New(h, k, nm, p) ==
    IF ~Ok(h) THEN h
    ELSE IF h.n >= MaxNodes THEN Raise(h, "Pool")
    ELSE [h EXCEPT !.n = @ + 1,
                   !.kind[h.n + 1] = k,
                   !.name[h.n + 1] = nm,
                   !.parent[h.n + 1] = p,
                   !.fps[h.n + 1] = IF k = "Camera" THEN FloatValue(30) ELSE Absent,
                   !.ret = h.n + 1]

(***************************************************************************)
(* detach, the decoupling of orphaned references, and the target setter.   *)
(* The last parameter d is the remaining call depth.  A step that follows  *)
(* a call takes the heap the call returned as its first parameter.         *)
(***************************************************************************)
RECURSIVE detach(_, _, _, _)
RECURSIVE detach_item(_, _, _, _)
RECURSIVE detach_items(_, _, _, _)
RECURSIVE _decouple(_, _, _)
RECURSIVE decouple_each(_, _, _)
RECURSIVE _decouple_descendants(_, _, _)
RECURSIVE CyclicalThing_setattr(_, _, _, _)
RECURSIVE target_fset(_, _, _, _)

\* The last two statements of the Camera.target setter.
target_store(h, c, t) ==
    IF ~Ok(h) THEN h
    ELSE [h EXCEPT !.targeting_cameras =
                       IF t = None THEN @ ELSE [@ EXCEPT ![t] = Append(@, c)],
                   !.target[c] = t]

\* Camera.target setter.
target_fset(h, c, t, d) ==
    IF ~Ok(h) THEN h
    ELSE IF d = 0 THEN Raise(h, "RecursionError")
    ELSE IF h.parent[c] = None /\ ~h.IGNORE_CHECKS[c] THEN Raise(h, "ValueError")
    ELSE IF h.parent[c] # None /\ h.parent[c] = t THEN Raise(h, "ValueError")
    ELSE target_store(IF h.target[c] # None
                      THEN detach(h, h.target[c], <<c>>, d - 1)
                      ELSE h,
                      c, t)

\* CyclicalThing.__setattr__ for the attribute 'target' (the only entry of
\* _OTHER_REFERENCES of a Camera).
CyclicalThing_setattr(h, c, ref, d) ==
    IF ~Ok(h) THEN h
    ELSE IF d = 0 THEN Raise(h, "RecursionError")
    ELSE IF h.IGNORE_CHECKS[c] \/ ~_disjunct(h, h.parent[c], ref) \/ ref = None
    THEN target_fset(h, c, ref, d - 1)
    ELSE Raise(h, "ValueError")

\* CyclicalThing._decouple.
_decouple(h, c, d) ==
    IF ~Ok(h) THEN h
    ELSE IF d = 0 THEN Raise(h, "RecursionError")
    ELSE IF _disjunct(h, h.parent[c], h.target[c]) /\ h.target[c] # None
    THEN CyclicalThing_setattr(detach(h, h.target[c], <<c>>, d - 1), c, None, d - 1)
    ELSE h

decouple_each(h, cs, d) ==
    IF cs = <<>> \/ ~Ok(h) THEN h
    ELSE decouple_each(_decouple(h, Head(cs), d), Tail(cs), d)

\* NodeThing._decouple_descendants: the descendants are collected first, then
\* each cyclical one is decoupled.
_decouple_descendants(h, x, d) ==
    IF ~Ok(h) THEN h
    ELSE IF d = 0 THEN Raise(h, "RecursionError")
    ELSE decouple_each(h, descendants(h, x), d - 1)

\* detach, after the item left its role collection: item._decouple_descendants().
detach_decouple_node(h, x, d) ==
    IF Ok(h) /\ IsNodeThing(h, x) THEN _decouple_descendants(h, x, d - 1) ELSE h

\* detach, after the item left its role collection: item._decouple().
detach_decouple_cyclical(h, x, d) ==
    IF Ok(h) /\ IsCyclical(h, x) THEN _decouple(h, x, d - 1) ELSE h

\* detach's search in _CHILDREN with the item's parent edge left in place.
detach_child_keepparent(h, P, x, d) ==
    LET r == RoleFor(h.kind[P], h.kind[x])
    IN IF ~Ok(h) THEN h
       ELSE IF r # "" /\ Contains(h.children[P][r], x)
       THEN detach_decouple_cyclical(
                detach_decouple_node([h EXCEPT !.children[P][r] = Remove(@, x)], x, d),
                x, d)
       ELSE h

\* detach's search for the item in _CHILDREN.
detach_child(h, P, x, d) ==
    LET r == RoleFor(h.kind[P], h.kind[x])
    IN IF ~Ok(h) THEN h
       ELSE IF r # "" /\ Contains(h.children[P][r], x)
       THEN detach_decouple_cyclical(
                detach_decouple_node(
                    [h EXCEPT !.children[P][r] = Remove(@, x), !.parent[x] = None],
                    x, d),
                x, d)
       ELSE h

\* detach's search for the item in _CYCLE_REF (a Body's targeting_cameras).
detach_cycle_ref(h, P, x, d) ==
    IF ~Ok(h) THEN h
    ELSE IF h.kind[P] = "Body" /\ h.kind[x] = "Camera"
            /\ Contains(h.targeting_cameras[P], x)
    THEN CyclicalThing_setattr(
             [h EXCEPT !.targeting_cameras[P] = Remove(@, x)], x, None, d - 1)
    ELSE h

\* The body of detach's loop for one item.
detach_item(h, P, x, d) == detach_cycle_ref(detach_child(h, P, x, d), P, x, d)

detach_items(h, P, items, d) ==
    IF items = <<>> \/ ~Ok(h) THEN h
    ELSE detach_items(detach_item(h, P, Head(items), d), P, Tail(items), d)

\* NodeThing.detach(*items).
detach(h, P, items, d) ==
    IF ~Ok(h) THEN h
    ELSE IF d = 0 THEN Raise(h, "RecursionError")
    ELSE IF _launched(h, P) THEN Raise(h, "Exception")
    ELSE _decouple_descendants(detach_items(h, P, items, d), P, d - 1)

(***************************************************************************)
(* copy, attach and the migration protocol of CyclicalThing.               *)
(***************************************************************************)
RECURSIVE copy(_, _, _)
RECURSIVE NodeThing_copy(_, _, _)
RECURSIVE copy_each(_, _, _, _)
RECURSIVE attach_item(_, _, _, _, _)
RECURSIVE attach(_, _, _, _, _)
RECURSIVE _migrate(_, _, _, _, _)
RECURSIVE migrate_each(_, _, _, _, _)
RECURSIVE _start_migration(_, _, _, _)
RECURSIVE _migrate_children(_, _, _, _, _)

\* BaseThing.copy, the copy method of a Camera. _blueprint_specs hands the
\* original's parent to the constructor ('parent' is a blueprint attribute that
\* is not copied); target is no blueprint attribute.  The fps of a Camera is
\* a blueprint attribute, handed on unless it is None.
BaseThing_copy(h, x) ==
    IF ~Ok(h) \/ h.n >= MaxNodes \/ h.kind[x] # "Camera" \/ h.fps[x].t # "float"
    THEN New(h, h.kind[x], h.name[x], h.parent[x])
    ELSE [New(h, h.kind[x], h.name[x], h.parent[x]) EXCEPT !.fps[h.n + 1] = h.fps[x]]

\* CyclicalThing._MIGRATION_DONE.
_MIGRATION_DONE(h, c) ==
    h.MIGRATIONS[c].parent # None /\ h.MIGRATIONS[c].target # None

\* CyclicalThing._finalize_migration.
_finalize_migration(h, c) ==
    IF ~Ok(h) THEN h
    ELSE [h EXCEPT !.IGNORE_CHECKS[h.COPY[c]] = FALSE,
                   !.COPY[c] = None,
                   !.MIGRATED[c] = FALSE,
                   !.MIGRATIONS[c] = NoMigrations]

\* attach, the type check and the insertion into the first matching role.
attach_link(h, P, child) ==
    LET r == RoleFor(h.kind[P], h.kind[child])
    IN IF ~Ok(h) THEN h
       ELSE IF r = "" THEN Raise(h, "TypeError")
       ELSE [h EXCEPT !.children[P][r] = Append(@, child), !.parent[child] = P]

\* attach's loop body without the cycle check.
attach_child_nocycle(h, P, child, cp, d) ==
    IF ~Ok(h) THEN h
    ELSE attach_link(IF h.parent[child] # None
                     THEN detach(h, h.parent[child], <<child>>, d - 1)
                     ELSE h,
                     P, child)

\* attach's loop body with a cycle check that only refuses the receiver itself.
attach_child_selfcheck(h, P, child, cp, d) ==
    IF ~Ok(h) THEN h
    ELSE IF ~cp /\ child = P THEN Raise(h, "ValueError")
    ELSE attach_link(IF h.parent[child] # None
                     THEN detach(h, h.parent[child], <<child>>, d - 1)
                     ELSE h,
                     P, child)

\* attach, from the cycle check on: child is the item or its copy.
attach_child(h, P, child, cp, d) ==
    IF ~Ok(h) THEN h
    ELSE IF ~cp /\ IsNodeThing(h, child) /\ Contains(path(h, P), child)
    THEN Raise(h, "ValueError")
    ELSE attach_link(IF h.parent[child] # None
                     THEN detach(h, h.parent[child], <<child>>, d - 1)
                     ELSE h,
                     P, child)

\* attach with copy=True, after child = item.copy() returned.
attach_copied(h, P, d) ==
    IF ~Ok(h) THEN h ELSE attach_child(h, P, h.ret, TRUE, d)

\* attach's loop body with the copy flag ignored: the item itself is linked.
attach_item_nocopy(h, P, item, cp, d) ==
    IF ~Ok(h) THEN h ELSE attach_child(h, P, item, FALSE, d)

\* The body of attach's loop for one item.
attach_item(h, P, item, cp, d) ==
    IF ~Ok(h) THEN h
    ELSE IF cp THEN attach_copied(copy(h, item, d - 1), P, d)
    ELSE attach_child(h, P, item, FALSE, d)

\* NodeThing.attach(*items, copy): the items one after the other.
attach(h, P, items, cp, d) ==
    IF items = <<>> \/ ~Ok(h) THEN h
    ELSE IF d = 0 THEN Raise(h, "RecursionError")
    ELSE attach(attach_item(h, P, Head(items), cp, d), P, Tail(items), cp, d)

\* _start_migration, first three statements after self.copy() returned.
_start_migration_record(h, c) ==
    IF ~Ok(h) THEN h
    ELSE [h EXCEPT !.COPY[c] = h.ret,
                   !.IGNORE_CHECKS[h.ret] = TRUE,
                   !.MIGRATED[c] = TRUE]

\* _start_migration: ref.attach(self._COPY, copy=False).
_start_migration_attach(h, c, ref, d) ==
    IF ~Ok(h) THEN h ELSE attach(h, ref, <<h.COPY[c]>>, FALSE, d - 1)

\* _start_migration, last statement.
_start_migration_checks(h, c) ==
    IF ~Ok(h) THEN h ELSE [h EXCEPT !.IGNORE_CHECKS[h.COPY[c]] = FALSE]

\* _start_migration, the loop over the recorded migrations and the entry
\* written after it.  The loop rebinds the names attr and ref, so the entry
\* written is the last recorded one when there is one, and ('parent', ref)
\* only otherwise.
_start_migration_rewire(h, c, ref, d) ==
    IF ~Ok(h) THEN h
    ELSE IF h.MIGRATIONS[c].target # None
    THEN _start_migration_checks(
             CyclicalThing_setattr(h, h.COPY[c], h.MIGRATIONS[c].target, d - 1), c)
    ELSE _start_migration_checks([h EXCEPT !.MIGRATIONS[c].parent = ref], c)

\* CyclicalThing._start_migration.
_start_migration(h, c, ref, d) ==
    _start_migration_rewire(
        _start_migration_attach(
            _start_migration_record(copy(h, c, d - 1), c),
            c, ref, d),
        c, ref, d)

\* _migrate: self._COPY._IGNORE_CHECKS = temp.
_migrate_restore(h, new, temp) ==
    IF ~Ok(h) THEN h ELSE [h EXCEPT !.IGNORE_CHECKS[new] = temp]

\* _migrate, the branch of an improper reference after the copy was made.
_migrate_step(h, c, ref, d) ==
    IF h.MIGRATIONS[c].target # None THEN Raise(h, "Exception")
    ELSE _migrate_restore(
             CyclicalThing_setattr(
                 [h EXCEPT !.MIGRATIONS[c].target = ref,
                           !.IGNORE_CHECKS[h.COPY[c]] = FALSE],
                 h.COPY[c], ref, d - 1),
             h.COPY[c], h.IGNORE_CHECKS[h.COPY[c]])

\* _migrate, the closing test of _MIGRATION_DONE.
_migrate_finish(h, c) ==
    IF Ok(h) /\ _MIGRATION_DONE(h, c) THEN _finalize_migration(h, c) ELSE h

\* CyclicalThing._migrate(attr, ref) with ignore_checks left at its default.
_migrate(h, c, attr, ref, d) ==
    IF ~Ok(h) THEN h
    ELSE IF d = 0 THEN Raise(h, "RecursionError")
    ELSE _migrate_finish(
             IF attr = "parent"
             THEN _start_migration(
                      IF h.MIGRATED[c] THEN _finalize_migration(h, c) ELSE h,
                      c, ref, d - 1)
             ELSE IF h.MIGRATED[c] THEN _migrate_step(h, c, ref, d)
             ELSE [h EXCEPT !.MIGRATIONS[c].target = ref],
             c)

migrate_each(h, cs, attr, ref, d) ==
    IF cs = <<>> \/ ~Ok(h) THEN h
    ELSE migrate_each(_migrate(h, Head(cs), attr, ref, d), Tail(cs), attr, ref, d)

\* _migrate_children, the loop over _CYCLE_REF: the cameras targeting self
\* migrate their _PARENT_REFERENCE ('target').
_migrate_cycle_ref(h, x, thing, d) ==
    IF Ok(h) /\ h.kind[x] = "Body"
    THEN migrate_each(h, h.targeting_cameras[x], "target", thing, d - 1)
    ELSE h

\* NodeThing._migrate_children: the cyclical children migrate their parent,
\* then the loop over _CYCLE_REF.
_migrate_children(h, x, thing, cyclicals, d) ==
    _migrate_cycle_ref(migrate_each(h, cyclicals, "parent", thing, d - 1), x, thing, d)

\* [thing.copy() for thing in children], after one copy returned.
copy_collect(h, xs, acc, d) ==
    IF ~Ok(h) THEN h ELSE copy_each(h, xs, Append(acc, h.ret), d)

\* [thing.copy() for thing in children]: the heap after the copies, and the
\* copies in ret.
copy_each(h, xs, acc, d) ==
    IF ~Ok(h) THEN h
    ELSE IF xs = <<>> THEN [h EXCEPT !.ret = acc]
    ELSE copy_collect(copy(h, Head(xs), d), Tail(xs), acc, d)

\* NodeThing.copy, its last three statements.
copy_return(h, x, thing) ==
    IF ~Ok(h) THEN h
    ELSE [h EXCEPT !.copy_root = IF @ = x THEN None ELSE @, !.ret = thing]

\* NodeThing.copy, after the constructor allocated the copy (in ret): the
\* constructor of a Body attaches the copied children with copy=False, the
\* constructor of a World takes no children and drops them; then
\* _migrate_children.
copy_init(h, x, kids, cyclicals, d) ==
    IF ~Ok(h) THEN h
    ELSE copy_return(
             _migrate_children(
                 IF h.kind[x] = "Body" THEN attach(h, h.ret, kids, FALSE, d - 1) ELSE h,
                 x, h.ret, cyclicals, d - 1),
             x, h.ret)

\* NodeThing.copy, after the bodies were copied (in ret): the snapshot of the
\* cyclical children and the constructor call.
copy_construct(h, x, js, d) ==
    IF ~Ok(h) THEN h
    ELSE copy_init(New(h, h.kind[x], h.name[x], h.parent[x]),
                   x, js \o h.ret, h.children[x].cameras, d)

\* NodeThing.copy, after the joints were copied (in ret).
copy_bodies(h, x, d) ==
    IF ~Ok(h) THEN h
    ELSE copy_construct(copy_each(h, h.children[x].bodies, <<>>, d - 1), x, h.ret, d)

\* NodeThing.copy (deep): the acyclical children are copied first, joints
\* before bodies as in _CHILDREN.
NodeThing_copy(h, x, d) ==
    copy_bodies(
        copy_each(IF h.copy_root = None THEN [h EXCEPT !.copy_root = x] ELSE h,
                  h.children[x].joints, <<>>, d - 1),
        x, d)

copy(h, x, d) ==
    IF ~Ok(h) THEN h
    ELSE IF d = 0 THEN Raise(h, "RecursionError")
    ELSE IF IsNodeThing(h, x) THEN NodeThing_copy(h, x, d)
    ELSE BaseThing_copy(h, x)

\* NodeThing.__setattr__ on a children attribute: the current children are
\* detached, then the assigned ones attached with copy=False.
NodeThing_setattr(h, P, r, val, d) ==
    attach(detach(h, P, h.children[P][r], d), P, val, FALSE, d)

\* World.attach with copy set, after every item was copied (in ret).
World_attach_copies(h, W, d) ==
    IF ~Ok(h) THEN h ELSE attach(h, W, h.ret, FALSE, d)

\* World.attach: with copy set, every item is copied before the first one is
\* attached; the attaching itself is NodeThing.attach with copy=False.
World_attach(h, W, items, cp, d) ==
    IF cp THEN World_attach_copies(copy_each(h, items, <<>>, d - 1), W, d)
    ELSE attach(h, W, items, FALSE, d)

(***************************************************************************)
(* Name resolution: NameManager, TypeScope and NameScope.                  *)
(***************************************************************************)
\* Rounds of renaming after which TypeScope.register is taken not to return.
MaxRounds == 6

\* NodeThing.descendants[r]['descendants'] for the role r: the own children
\* of the role, then those of the child bodies in order, first occurrences only.
RECURSIVE DescendantsOf(_, _, _, _)
DescendantsOf(h, x, r, fuel) ==
    IF fuel = 0 THEN <<>>
    ELSE LET bs == h.children[x].bodies
         IN Dedupe(h.children[x][r] \o
                   Flatten([i \in 1..Len(bs) |-> DescendantsOf(h, bs[i], r, fuel - 1)]))

\* The element types NameManager.register finds, and the role of each.
ElementTypes == <<"Joint", "Camera", "Body">>
TypeRole(ty) ==
    CASE ty = "Joint" -> "joints"
      [] ty = "Camera" -> "cameras"
      [] ty = "Body" -> "bodies"

\* NameScope.__init__: the scope of the name nm for the descendants ds.
NameScope(nm, ds) == [set |-> TRUE, name |-> nm, descendants |-> ds]

\* NameScope.name that never appends the index.
NameScope_name_plain(s, x) == s.name

\* NameScope.name that numbers the descendants from one.
NameScope_name_from_one(s, x) ==
    IF Len(s.descendants) = 1 THEN s.name
    ELSE Append(s.name, FirstIndex(s.descendants, x))

\* NameScope.name(descendant).
NameScope_name(s, x) ==
    IF Len(s.descendants) = 1 THEN s.name
    ELSE Append(s.name, FirstIndex(s.descendants, x) - 1)

\* BaseThing.name (getter): the exposed name.
BaseThing_name(h, x) ==
    IF h.name_scope[x].set THEN NameScope_name(h.name_scope[x], x) ELSE h.name[x]

\* TypeScope.synonyms: the descendants grouped by exposed name, in order.
synonyms(h, ds) ==
    [n \in {BaseThing_name(h, ds[i]) : i \in 1..Len(ds)} |->
        SelectSeq(ds, LAMBDA y : BaseThing_name(h, y) = n)]

\* TypeScope.register: a NameScope is made for each name in names and its
\* group in syn, entered in name_scopes, and given to the things of the group.
TypeScope_assign(h, W, ty, syn, names) ==
    [h EXCEPT
        !.name_scope = [x \in Nodes |->
            IF \E n \in names : Contains(syn[n], x)
            THEN NameScope(BaseThing_name(h, x), syn[BaseThing_name(h, x)])
            ELSE h.name_scope[x]],
        !.type_scopes[W][ty].name_scopes =
            [n \in (DOMAIN @) \cup names |->
                IF n \in names THEN NameScope(n, syn[n]) ELSE @[n]]]

\* TypeScope.register without the loop: one round of renaming only.
TypeScope_rounds_once(h, W, ty, syn, fuel) == h

\* TypeScope.register, the loop: groups of more than one thing are given a new
\* NameScope until every exposed name is held by one thing.
RECURSIVE TypeScope_rounds(_, _, _, _, _)
\* TypeScope.register, the head of the loop: synonyms = self.synonyms().
TypeScope_next(h, W, ty, fuel) ==
    TypeScope_rounds(h, W, ty, synonyms(h, h.type_scopes[W][ty].descendants), fuel)

TypeScope_rounds(h, W, ty, syn, fuel) ==
    IF \A n \in DOMAIN syn : Len(syn[n]) = 1 THEN h
    ELSE IF fuel = 0 THEN Raise(h, "Hang")
    ELSE TypeScope_next(
             TypeScope_assign(h, W, ty, syn, {n \in DOMAIN syn : Len(syn[n]) > 1}),
             W, ty, fuel - 1)

\* The reset that misses the first descendant (self.descendants[1:]).
TypeScope_reset_tail(h, W, ty) ==
    [h EXCEPT !.name_scope = [x \in Nodes |->
                  IF Contains(SubSeq(h.type_scopes[W][ty].descendants, 2,
                                     Len(h.type_scopes[W][ty].descendants)), x)
                  THEN NoScope ELSE @[x]],
              !.type_scopes[W][ty].name_scopes = <<>>]

\* TypeScope.register, first two statements: the scopes of the descendants are
\* reset, then one NameScope is made per label.
TypeScope_reset(h, W, ty) ==
    [h EXCEPT !.name_scope = [x \in Nodes |->
                  IF Contains(h.type_scopes[W][ty].descendants, x) THEN NoScope ELSE @[x]],
              !.type_scopes[W][ty].name_scopes = <<>>]

\* TypeScope.register, the comprehension over self.synonyms().items().
TypeScope_first(h, W, ty, syn) == TypeScope_assign(h, W, ty, syn, DOMAIN syn)

TypeScope_labels(h, W, ty) ==
    TypeScope_first(h, W, ty, synonyms(h, h.type_scopes[W][ty].descendants))

\* TypeScope.register.
TypeScope_register(h, W, ty) ==
    TypeScope_next(
        TypeScope_labels(TypeScope_reset(h, W, ty), W, ty),
        W, ty, MaxRounds)

\* TypeScope.__init__.
TypeScope(h, W, ty, ds) ==
    TypeScope_register(
        [h EXCEPT !.type_scopes[W][ty] = [descendants |-> ds, name_scopes |-> <<>>]],
        W, ty)

\* NameManager.register: root.descendants is read first, then one TypeScope is
\* made per element type.
RECURSIVE NameManager_scopes(_, _, _, _)
NameManager_scopes(h, W, tys, DESCENDANTS) ==
    IF tys = <<>> \/ ~Ok(h) THEN h
    ELSE NameManager_scopes(TypeScope(h, W, Head(tys), DESCENDANTS[Head(tys)]),
                            W, Tail(tys), DESCENDANTS)

NameManager_register(h, W) ==
    IF ~Ok(h) THEN h
    ELSE NameManager_scopes(h, W, ElementTypes,
             [ty \in {"Joint", "Camera", "Body"} |->
                 DescendantsOf(h, W, TypeRole(ty), MaxNodes)])

\* NameManager.unregister: every NameScope that is still entered in a
\* TypeScope releases its descendants; the TypeScopes are dropped.
NameManager_unregister(h, W) ==
    IF ~Ok(h) THEN h
    ELSE [h EXCEPT
            !.name_scope = [x \in Nodes |->
                IF \E ty \in {"Joint", "Camera", "Body"} :
                      \E n \in DOMAIN h.type_scopes[W][ty].name_scopes :
                          Contains(h.type_scopes[W][ty].name_scopes[n].descendants, x)
                THEN NoScope ELSE @[x]],
            !.type_scopes[W] = NoTypeScopes]

\* BaseThing.name (setter).
BaseThing_name_fset(h, x, nm) ==
    IF ~Ok(h) THEN h
    ELSE IF h.name_scope[x].set
         THEN IF h.built[root(h, x)] THEN Raise(h, "AssertionError")
              ELSE Raise(h, "Exception")
    ELSE [h EXCEPT !.name[x] = nm]

\* World.build: nothing when built; else the names are registered and the
\* built flag is set.  World.unbuild: nothing unless built.
build(h, W) ==
    IF h.built[W] THEN h ELSE [NameManager_register(h, W) EXCEPT !.built[W] = TRUE]
unbuild(h, W) ==
    IF ~h.built[W] THEN h ELSE NameManager_unregister([h EXCEPT !.built[W] = FALSE], W)

(***************************************************************************)
(* Scenes: object graphs built by the constructors, attach(copy=False) and *)
(* the target setter, as a user script would build them.                   *)
(***************************************************************************)
Att(h, P, x) == attach(h, P, <<x>>, FALSE, RecursionLimit)
Det(h, P, x) == detach(h, P, <<x>>, RecursionLimit)
Tgt(h, c, t) == CyclicalThing_setattr(h, c, t, RecursionLimit)
Make(kinds) ==
    LET RECURSIVE mk(_, _)
        mk(h, i) == IF i > Len(kinds) THEN h ELSE mk(New(h, kinds[i], <<i>>, None), i + 1)
    IN mk(EmptyHeap, 1)

\* T(1){bodies: [D(2)], cameras: [c(3)]}, c.target = D; a free body P(4).
SceneOwnSubtree ==
    Tgt(Att(Att(Make(<<"Body", "Body", "Camera", "Body">>), 1, 2), 1, 3), 3, 2)

\* T(1){bodies: [A(2){cameras: [c(4)]}, B(3)]}, c.target = B: owner before target.
SceneOwnerFirst ==
    Tgt(Att(Att(Att(Make(<<"Body", "Body", "Body", "Camera">>), 1, 2), 1, 3), 2, 4), 4, 3)

\* T(1){bodies: [B(2), A(3){cameras: [c(4)]}]}, c.target = B: target before owner.
SceneTargetFirst ==
    Tgt(Att(Att(Att(Make(<<"Body", "Body", "Body", "Camera">>), 1, 2), 1, 3), 3, 4), 4, 2)

\* W(1){bodies: [A(2){joints: [j(3)], cameras: [c(4)]}, B(5){bodies: [D(6)]}]},
\* c.target = D; a free body F(7).
SceneWorld ==
    Tgt(Att(Att(Att(Att(Att(
        Make(<<"World", "Body", "Joint", "Camera", "Body", "Body", "Body">>),
        1, 2), 2, 3), 2, 4), 1, 5), 5, 6), 4, 6)

\* R(1){cameras: [c(2)], bodies: [A(3)]}, c.target = D(4), after D was
\* attached to A and detached from it again.
SceneDetached ==
    Det(Tgt(Att(Att(Att(Make(<<"Body", "Camera", "Body", "Body">>), 1, 2), 1, 3), 3, 4),
            2, 4),
        3, 4)

Scenes ==
    {[h EXCEPT !.ret = None] :
        h \in {SceneOwnSubtree, SceneOwnerFirst, SceneTargetFirst, SceneWorld,
               SceneDetached}}

Init ==
    /\ heap \in Scenes
    /\ hist = <<>>

\* The last operation, the heap it started from, and the number of operations.
NoOp == [op |-> "init", P |-> None, x |-> None, cp |-> FALSE, role |-> "",
         err |-> "OK", ret |-> None, pre |-> EmptyHeap]
nops == Len(hist)
last == IF hist = <<>> THEN NoOp ELSE hist[Len(hist)]
prev == IF hist = <<>> THEN heap ELSE last.pre

(***************************************************************************)
(* The user-level operations.  An operation that raised leaves the heap    *)
(* with the mutations made before the exception; the exception is recorded *)
(* in last.  An operation that would allocate past the pool is not taken.  *)
(***************************************************************************)
Commit(op, P, x, cp, role, r) ==
    /\ nops < MaxOps
    /\ r.err # "Pool"
    /\ heap' = [r EXCEPT !.err = "OK", !.ret = None]
    /\ hist' = Append(hist, [op |-> op, P |-> P, x |-> x, cp |-> cp, role |-> role,
                             err |-> r.err,
                             ret |-> IF r.err = "OK" THEN r.ret ELSE None,
                             pre |-> heap])

NodeThings == {x \in Live(heap) : IsNodeThing(heap, x)}
Cameras == {x \in Live(heap) : IsCyclical(heap, x)}
Bodies == {x \in Live(heap) : heap.kind[x] = "Body"}
Worlds == {x \in Live(heap) : heap.kind[x] = "World"}

\* P.attach(x, copy=cp)
Attach ==
    \E P \in NodeThings, x \in Live(heap), cp \in BOOLEAN :
        Commit("attach", P, x, cp, "",
               IF heap.kind[P] = "World"
               THEN World_attach(heap, P, <<x>>, cp, RecursionLimit)
               ELSE attach(heap, P, <<x>>, cp, RecursionLimit))

\* P.detach(x)
Detach ==
    \E P \in NodeThings, x \in Live(heap) :
        Commit("detach", P, x, FALSE, "", detach(heap, P, <<x>>, RecursionLimit))

\* P.<role> = [] and P.<role> = x
SetChildren ==
    \E P \in NodeThings, x \in Live(heap) \cup {None} :
        \E i \in 1..Len(Roles(heap.kind[P])) :
            Commit("setattr", P, x, FALSE, Roles(heap.kind[P])[i],
                   NodeThing_setattr(heap, P, Roles(heap.kind[P])[i],
                                     IF x = None THEN <<>> ELSE <<x>>, RecursionLimit))

\* x.copy()
Copy ==
    \E x \in Live(heap) :
        Commit("copy", None, x, TRUE, "", copy(heap, x, RecursionLimit))

\* c.target = t
SetTarget ==
    \E c \in Cameras, t \in Bodies \cup {None} :
        Commit("target", t, c, FALSE, "", CyclicalThing_setattr(heap, c, t, RecursionLimit))

\* W.build()
Build ==
    \E W \in Worlds :
        /\ ~heap.built[W]
        /\ Commit("build", W, None, FALSE, "", build(heap, W))

\* W.unbuild()
Unbuild ==
    \E W \in Worlds :
        /\ heap.built[W]
        /\ Commit("unbuild", W, None, FALSE, "", unbuild(heap, W))

Next ==
    \/ Attach
    \/ Detach
    \/ SetChildren
    \/ Copy
    \/ SetTarget
    \/ Build
    \/ Unbuild

Spec == Init /\ [][Next]_vars

(***************************************************************************)
(* Name registration on its own: a World whose descendants carry every     *)
(* assignment of labels, and the operations that register and unregister.  *)
(***************************************************************************)
\* User labels: "rock", "rock_(0)", "rock_(1)", "rock_(0)_(0)" and "stone".
Labels == {<<"rock">>, <<"rock", 0>>, <<"rock", 1>>, <<"rock", 0, 0>>, <<"stone">>}

\* The heap h with the things of xs labelled by ls, as their constructors
\* were called with name=.
Labelled(h, xs, ls) ==
    [h EXCEPT !.name = [x \in Nodes |->
                  IF Contains(xs, x) THEN ls[FirstIndex(xs, x)] ELSE @[x]],
              !.ret = None]

\* W(1){bodies: [2, 3, 4, 5]}.
SceneFlat ==
    Att(Att(Att(Att(Make(<<"World", "Body", "Body", "Body", "Body">>),
        1, 2), 1, 3), 1, 4), 1, 5)

\* W(1){bodies: [2{bodies: [3]}, 4]}: body 3 was attached before body 4.
SceneNested ==
    Att(Att(Att(Make(<<"World", "Body", "Body", "Body">>), 1, 2), 2, 3), 1, 4)

\* W(1){bodies: [2{cameras: [3]}], cameras: [4]}.
SceneKinds ==
    Att(Att(Att(Make(<<"World", "Body", "Camera", "Camera">>), 1, 2), 2, 3), 1, 4)

\* W(1){bodies: [copy of L, copy of L]} with the template L(2) labelled "leaf":
\* W.attach(L, copy=True) twice.
SceneLeaves ==
    World_attach(
        World_attach(
            [Make(<<"World", "Body">>) EXCEPT !.name[2] = <<"leaf">>],
            1, <<2>>, TRUE, RecursionLimit),
        1, <<2>>, TRUE, RecursionLimit)

RegisterScenes ==
    {Labelled(SceneFlat, <<2, 3, 4, 5>>, ls) : ls \in [1..4 -> Labels]}
    \cup {Labelled(SceneNested, <<2, 3, 4>>, ls) : ls \in [1..3 -> Labels]}
    \cup {Labelled(SceneKinds, <<2, 3, 4>>, ls) : ls \in [1..3 -> Labels]}
    \cup {Labelled(SceneLeaves, <<>>, <<>>)}

InitRegister ==
    /\ heap \in RegisterScenes
    /\ hist = <<>>

\* W._name_manager.register()
Register ==
    \E W \in Worlds :
        Commit("register", W, None, FALSE, "", NameManager_register(heap, W))

NextRegister ==
    \/ Build
    \/ Unbuild
    \/ Register

SpecRegister == InitRegister /\ [][NextRegister]_vars

(***************************************************************************)
(* Label edits around build: a World with two bodies and a free body, all  *)
(* labelled "rock", before and after W.build().                            *)
(***************************************************************************)
\* W(1){bodies: [2{bodies: [3]}]} and the free body 4.
SceneRocks ==
    Labelled(Att(Att(Make(<<"World", "Body", "Body", "Body">>), 1, 2), 2, 3),
             <<2, 3, 4>>, <<(<<"rock">>), <<"rock">>, <<"rock">>>>)

\* The same after W.build().
SceneRocksBuilt == build(SceneRocks, 1)

InitNames ==
    /\ heap \in {SceneRocks, SceneRocksBuilt}
    /\ hist = <<>>

\* x.name = nm
SetName ==
    \E x \in Live(heap), nm \in {<<"rock">>, <<"stone">>} :
        Commit("name", None, x, FALSE, "", BaseThing_name_fset(heap, x, nm))

\* P.attach(x), without the copy argument: copy is True by default in
\* NodeThing.attach and False by default in World.attach.
AttachDefault ==
    \E P \in NodeThings, x \in Live(heap) :
        Commit("attach()", P, x, heap.kind[P] # "World", "",
               IF heap.kind[P] = "World"
               THEN World_attach(heap, P, <<x>>, FALSE, RecursionLimit)
               ELSE attach(heap, P, <<x>>, TRUE, RecursionLimit))

NextNames ==
    \/ Attach
    \/ AttachDefault
    \/ Detach
    \/ SetName
    \/ Build
    \/ Unbuild

SpecNames == InitNames /\ [][NextNames]_vars

(***************************************************************************)
(* UniqueThing: the resources shared by several parents.  A Mesh refers to *)
(* a MeshAsset by `asset`, a MeshAsset to a MeshCache by `cache`; the      *)
(* MeshCache holds the vertecies.  x._references is the set object         *)
(* references[references_of[x]]: a shallow copy of x shares the set.       *)
(***************************************************************************)
\* The vertex data a script writes.
Payloads == {1, 2}

IsUnique(h, x) == h.kind[x] \in {"MeshAsset", "MeshCache"}

\* UniqueThing.__contains__ reads self._references.
References(h, u) == h.references[h.references_of[u]]

\* getattr(thing, self._REFERENCE_NAME): 'cache' for a cache, 'asset' for an asset.
Referenced(h, x, u) == IF h.kind[u] = "MeshCache" THEN h.cache[x] ELSE h.asset[x]

\* setattr(thing, self._REFERENCE_NAME, self); UniqueThing.__setattr__ drops
\* the assignment when thing is itself a frozen UniqueThing.
SetReferenced(h, x, u) ==
    IF IsUnique(h, x) /\ h.freeze[x] THEN h
    ELSE IF h.kind[u] = "MeshCache" THEN [h EXCEPT !.cache[x] = u]
    ELSE [h EXCEPT !.asset[x] = u]

\* UniqueThing._remove.
UniqueThing_remove(h, u, x) ==
    IF x \in References(h, u)
    THEN [h EXCEPT !.references[h.references_of[u]] = @ \ {x}]
    ELSE h

\* UniqueThing._add, the last two statements.
UniqueThing_add_reference(h, u, x) ==
    SetReferenced([h EXCEPT !.references[h.references_of[u]] = @ \cup {x}], x, u)

\* UniqueThing._add.
UniqueThing_add(h, u, x) ==
    IF ~Ok(h) \/ x \in References(h, u) THEN h
    ELSE UniqueThing_add_reference(
             IF Referenced(h, x, u) # None
             THEN UniqueThing_remove(h, Referenced(h, x, u), x)
             ELSE h,
             u, x)

\* copy: thing._name = self._name on the thing constructed last.
Named(h, nm) == IF ~Ok(h) THEN h ELSE [h EXCEPT !.name[h.ret] = nm]

\* MeshCache.__init__: self.vertecies = vertecies on the object constructed.
MeshCache_fields(h, v) == IF ~Ok(h) THEN h ELSE [h EXCEPT !.vertecies[h.ret] = v]

\* MeshCache.__init__(vertecies=v).
MeshCache(h, v) == MeshCache_fields(New(h, "MeshCache", <<>>, None), v)

\* MeshCache.copy: a MeshCache constructed from the blueprint attributes.
MeshCache_copy(h, K) ==
    IF ~Ok(h) THEN h
    ELSE Named(MeshCache(h, h.vertecies[K]), h.name[K])

\* copy(attr) on a MeshCache: a new object with the same attribute values,
\* the set _references included.
ShallowCopy_fields(h, K) ==
    IF ~Ok(h) THEN h
    ELSE [h EXCEPT !.references_of[h.ret] = h.references_of[K],
                   !.freeze[h.ret] = h.freeze[K],
                   !.vertecies[h.ret] = h.vertecies[K]]

ShallowCopy(h, K) == ShallowCopy_fields(New(h, h.kind[K], h.name[K], None), K)

\* MeshAsset.__init__(cache=K): self.cache = cache; self.cache._add(self).
MeshAsset_cache(h, K) ==
    IF ~Ok(h) THEN h
    ELSE [UniqueThing_add([h EXCEPT !.cache[h.ret] = K], K, h.ret) EXCEPT !.ret = h.ret]

\* MeshAsset.__init__ with the cache that the previous call returned.
MeshAsset_given(h) == MeshAsset_cache(New(h, "MeshAsset", <<>>, None), h.ret)

\* MeshAsset.__init__(cache=K) and MeshAsset.__init__(vertecies=v).
MeshAsset(h, K, v) ==
    IF ~Ok(h) THEN h
    ELSE IF K = None THEN MeshAsset_given(MeshCache(h, v))
    ELSE MeshAsset_given([h EXCEPT !.ret = K])

\* BaseThing.copy on a MeshAsset: 'cache' is a blueprint attribute that is
\* not exempt from copy(attr).
MeshAsset_copy(h, R) ==
    IF ~Ok(h) THEN h
    ELSE Named(MeshAsset_given(ShallowCopy(h, h.cache[R])), h.name[R])

\* Mesh.__init__(asset=R): self.asset = asset; the asset is frozen while it
\* takes the Mesh as a parent, and is not frozen when __init__ returns.
Mesh_asset(h, R) ==
    IF ~Ok(h) THEN h
    ELSE [UniqueThing_add([h EXCEPT !.asset[h.ret] = R, !.freeze[R] = TRUE], R, h.ret)
             EXCEPT !.freeze[R] = FALSE, !.ret = h.ret]

\* Mesh.__init__ with the asset that the previous call returned.
Mesh_given(h) == Mesh_asset(New(h, "Mesh", <<>>, None), h.ret)

\* Mesh.__init__(asset=R) and Mesh.__init__(vertecies=v).
Mesh(h, R, v) ==
    IF ~Ok(h) THEN h
    ELSE IF R = None THEN Mesh_given(MeshAsset(h, None, v))
    ELSE Mesh_given([h EXCEPT !.ret = R])

\* UniqueThing.copy by class.
UniqueThing_copy(h, u) ==
    IF h.kind[u] = "MeshCache" THEN MeshCache_copy(h, u) ELSE MeshAsset_copy(h, u)

\* UniqueThing._prepare_for_modification, the branch: thing._add(parent); the
\* method has no return statement.
UniqueThing_prepare_add(h, x) ==
    IF ~Ok(h) THEN h
    ELSE [UniqueThing_add(h, h.ret, x) EXCEPT !.ret = None]

\* _prepare_for_modification that never copies: the write goes to the shared
\* resource.
UniqueThing_prepare_in_place(h, u, x) ==
    IF ~Ok(h) THEN h
    ELSE IF Referenced(h, x, u) # u THEN Raise(h, "AssertionError")
    ELSE IF x \notin References(h, u) THEN Raise(h, "AssertionError")
    ELSE [h EXCEPT !.ret = None]

\* UniqueThing._prepare_for_modification.
UniqueThing_prepare_for_modification(h, u, x) ==
    IF ~Ok(h) THEN h
    ELSE IF Referenced(h, x, u) # u THEN Raise(h, "AssertionError")
    ELSE IF x \notin References(h, u) THEN Raise(h, "AssertionError")
    ELSE IF Cardinality(References(h, u)) > 1 /\ ~h.freeze[u]
         THEN UniqueThing_prepare_add(UniqueThing_copy(h, u), x)
    ELSE [h EXCEPT !.ret = None]

\* MeshCache.vertecies (setter) through UniqueThing.__setattr__: a frozen
\* cache drops the assignment.
MeshCache_vertecies_fset(h, K, v) ==
    IF ~Ok(h) \/ h.freeze[K] THEN h ELSE [h EXCEPT !.vertecies[K] = v]

\* MeshAsset.vertecies (setter), second statement: self.cache.vertecies = v.
MeshAsset_vertecies_write(h, R, v) ==
    IF ~Ok(h) THEN h ELSE MeshCache_vertecies_fset(h, h.cache[R], v)

\* MeshAsset.vertecies (setter) through UniqueThing.__setattr__.
MeshAsset_vertecies_fset(h, R, v) ==
    IF ~Ok(h) \/ h.freeze[R] THEN h
    ELSE MeshAsset_vertecies_write(
             UniqueThing_prepare_for_modification(h, h.cache[R], R), R, v)

\* MeshAsset.vertecies (getter).
MeshAsset_vertecies(h, R) == h.vertecies[h.cache[R]]

\* Mesh.vertecies (setter), second statement: self.asset.vertecies = v.
Mesh_vertecies_write(h, A, v) ==
    IF ~Ok(h) THEN h ELSE MeshAsset_vertecies_fset(h, h.asset[A], v)

\* Mesh.vertecies (setter).
Mesh_vertecies_fset(h, A, v) ==
    IF ~Ok(h) THEN h
    ELSE [Mesh_vertecies_write(
              UniqueThing_prepare_for_modification(h, h.asset[A], A), A, v)
          EXCEPT !.ret = None]

\* Two Meshes on one MeshAsset: A = Mesh(vertecies=1); B = Mesh(asset=A.asset).
\* The objects are 1: the MeshCache, 2: the MeshAsset, 3: A, 4: B.
SceneShared == Mesh(Mesh(EmptyHeap, None, 1), 2, 1)

\* The same with a third Mesh 5 on the asset.
SceneShared3 == Mesh(SceneShared, 2, 1)

\* One Mesh with its own asset and cache.
SceneOwn == Mesh(EmptyHeap, None, 1)

\* Two assets on one cache, each with its Mesh: A = Mesh(vertecies=1);
\* R = MeshAsset(cache=A.asset.cache); B = Mesh(asset=R).
\* The objects are 1: the MeshCache, 2: A.asset, 3: A, 4: R, 5: B.
SceneSharedCache == Mesh(MeshAsset(Mesh(EmptyHeap, None, 1), 1, 1), 4, 1)

InitUnique ==
    /\ heap \in {[s EXCEPT !.ret = None] :
                    s \in {SceneShared, SceneShared3, SceneOwn, SceneSharedCache}}
    /\ hist = <<>>

Meshes == {x \in Live(heap) : heap.kind[x] = "Mesh"}
Uniques == {x \in Live(heap) : IsUnique(heap, x)}

\* A.vertecies = v
SetVertecies ==
    \E A \in Meshes, v \in Payloads :
        Commit("vertecies", v, A, FALSE, "", Mesh_vertecies_fset(heap, A, v))

\* u.freeze = b
SetFreeze ==
    \E u \in Uniques, b \in BOOLEAN :
        Commit("freeze", None, u, b, "", [heap EXCEPT !.freeze[u] = b])

\* u._prepare_for_modification(x), by a parent of the class that refers to u.
Prepare ==
    \E u \in Uniques, x \in Live(heap) :
        /\ heap.kind[x] = (IF heap.kind[u] = "MeshCache" THEN "MeshAsset" ELSE "Mesh")
        /\ Commit("prepare", u, x, FALSE, "",
                  UniqueThing_prepare_for_modification(heap, u, x))

\* Mesh(asset=R)
NewMesh ==
    \E R \in Uniques :
        /\ heap.kind[R] = "MeshAsset"
        /\ Commit("Mesh", R, None, FALSE, "", Mesh(heap, R, 1))

\* u.copy()
CopyUnique ==
    \E u \in Uniques :
        Commit("copy", None, u, TRUE, "", UniqueThing_copy(heap, u))

NextUnique ==
    \/ SetVertecies
    \/ SetFreeze
    \/ Prepare
    \/ NewMesh
    \/ CopyUnique

SpecUnique == InitUnique /\ [][NextUnique]_vars

(***************************************************************************)
(* Properties.                                                             *)
(***************************************************************************)
\* The node's own fields: its kind, its name, its parent edge, its role
\* collections, the target it holds and the built flag.
Fields(h, x) ==
    [kind |-> h.kind[x], name |-> h.name[x], parent |-> h.parent[x],
     children |-> h.children[x], target |-> h.target[x], built |-> h.built[x]]

\* The nodes the last operation allocated.
Fresh == Live(heap) \ Live(prev)

\* x occurs in some role collection of P.
ChildOf(h, P, x) ==
    \E i \in 1..Len(Roles(h.kind[P])) : Contains(h.children[P][Roles(h.kind[P])[i]], x)

C2_TemplateReusable ==
    (/\ last.op \in {"copy", "attach"} /\ last.cp
     /\ prev.kind[last.x] = "Body" /\ prev.parent[last.x] = None
     /\ ~_launched(prev, last.x)
     /\ last.op = "attach" => RoleFor(prev.kind[last.P], "Body") # "")
        => /\ last.err = "OK"
           /\ \E y \in Fresh : heap.kind[y] = "Body" /\ heap.name[y] = heap.name[last.x]

\* C2 failing run: the first T.copy() of a template whose camera targets a body
\* that is copied before the camera's owner completes, the second T.copy()
\* of the same template raises.
C2_SecondCopyRaises ==
    /\ nops = 2
    /\ hist[1].op = "copy" /\ hist[1].err = "OK"
    /\ hist[1].pre.parent[hist[1].x] = None
    /\ last.op = "copy" /\ last.x = hist[1].x
    /\ last.err = "Exception"

\* The nodes owned by x, x included: what a deep copy of x covers.
RECURSIVE SubtreeFrom(_, _, _)
SubtreeFrom(h, x, fuel) ==
    IF fuel = 0 THEN {x}
    ELSE {x} \cup UNION {SubtreeFrom(h, y, fuel - 1) :
                            y \in {z \in Live(h) : h.parent[z] = x /\ ChildOf(h, x, z)}}

Subtree(h, x) == SubtreeFrom(h, x, MaxNodes)

\* The camera c of the copied region was copied once, and its copy is owned by
\* the copy of c's owner and targets the copy of c's target.
CopiedOnce(c) ==
    LET cs == {y \in Fresh : heap.kind[y] = "Camera" /\ heap.name[y] = prev.name[c]}
    IN /\ Cardinality(cs) = 1
       /\ \A y \in cs :
            /\ heap.parent[y] \in Fresh
            /\ heap.name[heap.parent[y]] = prev.name[prev.parent[c]]
            /\ Contains(heap.children[heap.parent[y]].cameras, y)
            /\ heap.target[y] \in Fresh
            /\ heap.name[heap.target[y]] = prev.name[prev.target[c]]
            /\ Contains(heap.targeting_cameras[heap.target[y]], y)

\* C3: x.copy() that completes, for a subtree of x with pairwise distinct
\* names: each camera of the subtree whose owner and target both lie in the
\* subtree has exactly one copy, which is owned by the copy of its owner and
\* targets (and is listed by) the copy of its target.
C3_MigrationDedup ==
    (/\ last.op = "copy" /\ last.err = "OK"
     /\ \A y, z \in Subtree(prev, last.x) : prev.name[y] = prev.name[z] => y = z)
        => \A c \in Subtree(prev, last.x) :
              (/\ prev.kind[c] = "Camera"
               /\ prev.target[c] \in Subtree(prev, last.x))
                  => CopiedOnce(c)

\* C3 failing run: after A.copy() of the camera's owner alone, T.copy() of the
\* tree that holds owner and target completes, but the copy of the target
\* lists a camera that is no part of this copy, and the camera's new copy
\* has no target.
C3_StaleCopyRewired ==
    /\ nops = 2
    /\ hist[1].op = "copy" /\ hist[1].err = "OK"
    /\ last.op = "copy" /\ last.err = "OK"
    /\ \E b \in Fresh, c \in Live(prev) :
          /\ Contains(heap.targeting_cameras[b], c)
          /\ heap.target[c] = b
    /\ \E c \in Fresh : heap.kind[c] = "Camera" /\ heap.target[c] = None

\* C4: P.attach(x, copy=false) with x being P or an ancestor of P raises
\* ValueError and leaves the whole object graph, every parent edge and every
\* role collection included, as it was before the call.
C4_CycleRefused ==
    (last.op = "attach" /\ ~last.cp /\ Contains(path(prev, last.P), last.x))
        => /\ last.err = "ValueError"
           /\ heap = prev

\* C4 witness: an attach(copy=false) of a proper ancestor that owns children
\* was refused.
C4_Witness ==
    /\ last.op = "attach" /\ ~last.cp /\ last.err = "ValueError"
    /\ last.x # last.P
    /\ Contains(path(prev, last.P), last.x)
    /\ prev.parent[last.P] # last.x
    /\ ChildOf(prev, last.x, prev.parent[last.P])

\* C5: P.attach(x, copy=false) with x fitting none of P's roles (and x not on
\* P's parent path) raises TypeError and changes no parent edge, no role
\* collection and no cross-reference.
C5_TypeMismatchAtomic ==
    (/\ last.op = "attach" /\ ~last.cp
     /\ RoleFor(prev.kind[last.P], prev.kind[last.x]) = ""
     /\ ~Contains(path(prev, last.P), last.x))
        => /\ last.err = "TypeError"
           /\ heap.parent = prev.parent
           /\ heap.children = prev.children
           /\ heap.target = prev.target

\* C5 failing run: the attach raised TypeError, and the item, a child of
\* another node before the call, has lost its parent and its place in that
\* parent's role collection.
C5_DetachedBeforeTypeError ==
    /\ last.op = "attach" /\ ~last.cp /\ last.err = "TypeError"
    /\ prev.parent[last.x] # None
    /\ ChildOf(prev, prev.parent[last.x], last.x)
    /\ heap.parent[last.x] = None
    /\ ~ChildOf(heap, prev.parent[last.x], last.x)

\* Following parent edges from x reaches a node without parent within fuel steps.
RECURSIVE ReachesRoot(_, _, _)
ReachesRoot(h, x, fuel) ==
    IF h.parent[x] = None THEN TRUE
    ELSE IF fuel = 0 THEN FALSE
    ELSE ReachesRoot(h, h.parent[x], fuel - 1)

\* C6: in every state reached by attach, detach, role assignment, copy and the
\* other operations, following parent edges from any node ends at a parentless
\* node after fewer steps than there are nodes, and no node is on its own
\* chain of ancestors.
C6_Acyclic ==
    \A x \in Live(heap) :
        /\ ReachesRoot(heap, x, heap.n)
        /\ ~Contains(SubSeq(path(heap, x), 1, Len(path(heap, x)) - 1), x)

\* C6 witness: an attach(copy=false) and then a role assignment of one node
\* both completed, and some node sits two levels below its root.
C6_Witness ==
    /\ nops = 2
    /\ hist[1].op = "attach" /\ ~hist[1].cp /\ hist[1].err = "OK"
    /\ last.op = "setattr" /\ last.x # None /\ last.err = "OK"
    /\ heap.parent[last.x] = last.P
    /\ \E x \in Live(heap) : Len(path(heap, x)) >= 3

\* C7: after a sequence of attach and detach operations that all completed,
\* every camera that has a target shares its root with the target.
C7_CrossRefsSameRoot ==
    (\A i \in 1..Len(hist) : hist[i].op \in {"attach", "detach"} /\ hist[i].err = "OK")
        => \A c \in Cameras :
              heap.target[c] # None => root(heap, c) = root(heap, heap.target[c])

\* C7 failing run: P.detach(x) completed and separated the target x from a
\* camera that stays in the tree left behind, outside P's subtree; the camera
\* still targets x and x still lists the camera.
C7_StaleTarget ==
    /\ nops = 1
    /\ last.op = "detach" /\ last.err = "OK"
    /\ ChildOf(prev, last.P, last.x) /\ heap.parent[last.x] = None
    /\ \E c \in Cameras :
          /\ heap.target[c] = last.x
          /\ Contains(heap.targeting_cameras[last.x], c)
          /\ c \notin Subtree(heap, last.P)
          /\ root(heap, c) = root(heap, last.P)
          /\ root(heap, c) # root(heap, last.x)

\* C8: P.detach(x) for a child x of P in a tree that is not finalized completes
\* without error, and afterwards x is in none of P's role collections and has
\* no parent.
C8_DetachCompletes ==
    (/\ last.op = "detach"
     /\ prev.parent[last.x] = last.P /\ ChildOf(prev, last.P, last.x)
     /\ ~_launched(prev, last.P))
        => /\ last.err = "OK"
           /\ ~ChildOf(heap, last.P, last.x)
           /\ heap.parent[last.x] = None

\* C8 failing run: detaching a camera that has a target raised ValueError
\* after the camera had left its owner: the camera is parentless, still holds
\* the target, and the target no longer lists it.
C8_CameraDetachRaises ==
    /\ last.op = "detach" /\ last.err = "ValueError"
    /\ prev.kind[last.x] = "Camera" /\ prev.target[last.x] # None
    /\ prev.parent[last.x] = last.P /\ ChildOf(prev, last.P, last.x)
    /\ ~_launched(prev, last.P)
    /\ heap.parent[last.x] = None
    /\ heap.target[last.x] = prev.target[last.x]
    /\ ~Contains(heap.targeting_cameras[heap.target[last.x]], last.x)

\* The last two operations are P.attach(x, copy=false) and then P.detach(x).
first == hist[Len(hist) - 1]
before == first.pre
AttachThenDetach ==
    /\ Len(hist) >= 2
    /\ first.op = "attach" /\ ~first.cp
    /\ last.op = "detach" /\ last.P = first.P /\ last.x = first.x

\* The camera c has a target in heap h, and both share a root.
ValidRef(h, c) ==
    /\ h.kind[c] = "Camera" /\ h.target[c] # None
    /\ root(h, c) = root(h, h.target[c])

C10_FinalizedFrozen ==
    (last.op \in {"attach", "detach"} /\ _launched(prev, last.P))
        => /\ last.err # "OK"
           /\ heap.parent = prev.parent
           /\ heap.children = prev.children

\* C10 failing run: an attach on a node of a built World completed and
\* inserted a new child into the built tree.
C10_AttachAfterBuild ==
    /\ last.op = "attach" /\ last.err = "OK"
    /\ _launched(prev, last.P) /\ _launched(heap, last.P)
    /\ \E y \in Live(heap) :
          /\ heap.parent[y] = last.P /\ ChildOf(heap, last.P, y)
          /\ ~ChildOf(prev, last.P, y)

\* The node c carries no migration bookkeeping in heap h: it is not marked as
\* migrating, remembers no copy and has no recorded migration.
Settled(h, c) ==
    ~h.MIGRATED[c] /\ h.COPY[c] = None /\ h.MIGRATIONS[c] = NoMigrations

\* C14: when x.copy() has returned, called in a state where no node carried
\* migration bookkeeping, no node that existed before the call is marked as
\* migrating, remembers a copy or has recorded migrations.
C14_BookkeepingDiscarded ==
    (/\ last.op = "copy" /\ last.err = "OK"
     /\ \A c \in Live(prev) : Settled(prev, c))
        => \A c \in Live(prev) : Settled(heap, c)

\* C14 failing run: x.copy() returned, no node carried bookkeeping before, the
\* camera c with owner and target both inside the copied subtree is still
\* marked as migrating and remembers its copy.
C14_StillMigrating ==
    /\ last.op = "copy" /\ last.err = "OK"
    /\ \A c \in Live(prev) : Settled(prev, c)
    /\ \E c \in Subtree(prev, last.x) :
          /\ prev.kind[c] = "Camera" /\ c # last.x
          /\ prev.target[c] \in Subtree(prev, last.x)
          /\ heap.MIGRATED[c] /\ heap.COPY[c] \in Fresh
          /\ heap.MIGRATIONS[c] # NoMigrations

\* The cameras of the subtree of x whose target lies outside it.
OutsideTargeting(h, x) ==
    {c \in Subtree(h, x) : /\ h.kind[c] = "Camera" /\ c # x
                           /\ h.target[c] # None
                           /\ h.target[c] \notin Subtree(h, x)}

\* The copies the last operation made of the node c.
CopiesOf(c) == {y \in Fresh : heap.kind[y] = prev.kind[c] /\ heap.name[y] = prev.name[c]}

\* C15: x.copy() of a subtree that holds a camera whose target lies outside
\* the subtree completes; the camera has a copy, each copy of it has no
\* target, and the camera itself keeps its target.
C15_SoftDrop ==
    (last.op = "copy" /\ OutsideTargeting(prev, last.x) # {})
        => /\ last.err = "OK"
           /\ \A c \in OutsideTargeting(prev, last.x) :
                 /\ CopiesOf(c) # {}
                 /\ \A y \in CopiesOf(c) : heap.target[y] = None
                 /\ heap.target[c] = prev.target[c]

\* C15 failing run: the camera and its target share a tree; after the target
\* alone was copied, the copy of the camera's owner completes, and the
\* camera's copy targets a node outside the new copy.
C15_CopyTargetsOutside ==
    /\ nops = 2
    /\ hist[1].op = "copy" /\ hist[1].err = "OK"
    /\ last.op = "copy" /\ last.err = "OK"
    /\ \E c \in OutsideTargeting(prev, last.x) :
          /\ ValidRef(hist[1].pre, c) /\ ValidRef(prev, c)
          /\ \E y \in CopiesOf(c) :
                /\ heap.target[y] # None
                /\ heap.target[y] \notin Fresh

\* The structure of node x in heap h: its parent edge, its role collections,
\* the target it holds and the cameras that target it.
Structure(h, x) ==
    [parent |-> h.parent[x], children |-> h.children[x],
     target |-> h.target[x], targeting_cameras |-> h.targeting_cameras[x]]

\* C16: x.copy() that completes changes only nodes it creates: every node
\* that existed before the call, whether of the original tree or of an
\* earlier copy, has the same parent edge, role collections and
\* cross-references afterwards.
C16_CopyIndependent ==
    (last.op = "copy" /\ last.err = "OK")
        => \A y \in Live(prev) : Structure(heap, y) = Structure(prev, y)

\* C16 failing run: the second copy operation completes and has given the
\* camera made by the first copy operation another target.
C16_EarlierCopyRewired ==
    /\ nops = 2
    /\ hist[1].op = "copy" /\ hist[1].err = "OK"
    /\ last.op = "copy" /\ last.err = "OK"
    /\ \E y \in Live(prev) \ Live(hist[1].pre) :
          /\ prev.kind[y] = "Camera"
          /\ heap.target[y] # prev.target[y]
          /\ heap.target[y] \in Fresh

(***************************************************************************)
(* Name resolution.                                                        *)
(***************************************************************************)
\* The last operation registered the names of the tree of World last.P and
\* returned: register, or build on a World that was not built.
Registered ==
    /\ nops > 0
    /\ last.err = "OK"
    /\ \/ last.op = "register"
       \/ last.op = "build" /\ ~prev.built[last.P]

\* The bodies of World 1 are xs, in this order, and carry the labels ls.
BodiesLabelled(h, xs, ls) ==
    /\ h.children[1].bodies = xs
    /\ \A i \in 1..Len(xs) : h.name[xs[i]] = ls[i]

ExposedNames(h, xs) == [i \in 1..Len(xs) |-> BaseThing_name(h, xs[i])]

\* TypeScope.register up to the loop: the exposed names after the first round,
\* where every label stands for one NameScope.
FirstRound(h, W, ty) ==
    TypeScope_labels(
        TypeScope_reset(
            [h EXCEPT !.type_scopes[W][ty] =
                [descendants |-> DescendantsOf(h, W, TypeRole(ty), MaxNodes),
                 name_scopes |-> <<>>]],
            W, ty),
        W, ty)

\* C20: four bodies labelled, in insertion order, "rock", "rock", "rock_(1)",
\* "stone" are named "rock_(0)", "rock_(1)", "rock_(0)", "stone" by the first
\* renaming round, and registration ends with the exposed names
\* "rock_(0)_(0)", "rock_(1)", "rock_(0)_(1)", "stone".
C20_DocstringExample ==
    (Registered
     /\ BodiesLabelled(prev, <<2, 3, 4, 5>>,
            <<(<<"rock">>), <<"rock">>, <<"rock", 1>>, <<"stone">>>>))
    => /\ ExposedNames(FirstRound(prev, 1, "Body"), <<2, 3, 4, 5>>)
              = <<(<<"rock", 0>>), <<"rock", 1>>, <<"rock", 0>>, <<"stone">>>>
       /\ ExposedNames(heap, <<2, 3, 4, 5>>)
              = <<(<<"rock", 0, 0>>), <<"rock", 1>>, <<"rock", 0, 1>>, <<"stone">>>>

\* C20, the case reached: the four bodies are registered; the first round
\* names them "rock_(0)", "rock_(1)", "rock_(1)", "stone" and registration
\* ends with "rock_(0)", "rock_(1)_(0)", "rock_(1)_(1)", "stone".
C20_RocksRegistered ==
    /\ Registered
    /\ BodiesLabelled(prev, <<2, 3, 4, 5>>,
           <<(<<"rock">>), <<"rock">>, <<"rock", 1>>, <<"stone">>>>)
    /\ ExposedNames(FirstRound(prev, 1, "Body"), <<2, 3, 4, 5>>)
           = <<(<<"rock", 0>>), <<"rock", 1>>, <<"rock", 1>>, <<"stone">>>>
    /\ ExposedNames(heap, <<2, 3, 4, 5>>)
           = <<(<<"rock", 0>>), <<"rock", 1, 0>>, <<"rock", 1, 1>>, <<"stone">>>>

\* The descendants of the World W that belong to the element type ty.
Scoped(h, W, ty) == DescendantsOf(h, W, TypeRole(ty), MaxNodes)

\* C18: when register returns, no two distinct descendants of the root that
\* belong to the same kind expose the same name, whatever the labels are,
\* labels that end in the resolver's own "_(i)" suffix included.
C18_NamesUnique ==
    Registered =>
        \A ty \in {"Joint", "Camera", "Body"} :
            \A i, j \in 1..Len(Scoped(heap, last.P, ty)) :
                i # j => BaseThing_name(heap, Scoped(heap, last.P, ty)[i])
                             # BaseThing_name(heap, Scoped(heap, last.P, ty)[j])

\* C18, the case reached: register returned for a tree in which a label that
\* ends in the suffix collided with a generated name, and both things were
\* renamed once more.
C18_CascadeResolved ==
    /\ Registered
    /\ \E x, y \in Nodes :
        /\ x # y
        /\ heap.kind[x] = heap.kind[y]
        /\ Len(heap.name[x]) = 2
        /\ Len(heap.name[y]) = 1
        /\ Len(BaseThing_name(heap, x)) = 3
        /\ Len(BaseThing_name(heap, y)) = 3
        /\ BaseThing_name(heap, x) # BaseThing_name(heap, y)

\* The last two operations both registered the names of the same World and
\* returned, with nothing in between.
RegisteredTwice ==
    /\ nops = 2
    /\ Registered
    /\ hist[1].err = "OK"
    /\ hist[1].P = last.P
    /\ \/ hist[1].op = "register"
       \/ hist[1].op = "build" /\ ~hist[1].pre.built[last.P]

\* C19: register called twice in a row on the same root, with no attach,
\* detach or label edit in between, gives every node the same exposed name
\* after the second call as after the first.
C19_RegisterIdempotent ==
    RegisteredTwice =>
        \A x \in Nodes : BaseThing_name(heap, x) = BaseThing_name(prev, x)

\* C19, the case reached: the names were registered twice, and the first
\* registration had renamed a thing.
C19_RegisteredAgain ==
    /\ RegisteredTwice
    /\ \E x \in Nodes : BaseThing_name(prev, x) # prev.name[x]
    /\ \E x \in Nodes : BaseThing_name(heap, x) # heap.name[x]

\* The descendants of W of the element type ty that carry the label L, in the
\* order of root.descendants.
Synonymous(h, W, ty, L) == SelectSeq(Scoped(h, W, ty), LAMBDA y : h.name[y] = L)

\* The name n has the form L_(i).
Numbered(n, L) == Len(n) = Len(L) + 1 /\ SubSeq(n, 1, Len(L)) = L

\* The position of x among the things of the sequence G in insertion order:
\* in the scenes of RegisterScenes a thing with a smaller id was attached
\* earlier.
InsertionIndex(G, x) == Cardinality({i \in 1..Len(G) : G[i] < x})

\* C17: after registration, k >= 2 nodes of one kind that carry the same
\* label L, when no other node of that kind exposes a name of the form L_(i),
\* expose L_(0) ... L_(k-1), the index being the position in insertion order,
\* and a node whose label is unique within its kind exposes the label
\* unchanged; a template labelled "leaf" attached twice with copy=True to an
\* empty root gives the children "leaf_(0)" and "leaf_(1)".
C17_InsertionOrderNames ==
    Registered =>
        \A ty \in {"Joint", "Camera", "Body"} :
            \A i \in 1..Len(Scoped(heap, last.P, ty)) :
                LET S == Scoped(heap, last.P, ty)
                    x == S[i]
                    L == heap.name[x]
                    G == Synonymous(heap, last.P, ty, L)
                IN /\ (/\ Len(G) >= 2
                       /\ \A j \in 1..Len(S) :
                              heap.name[S[j]] # L
                              => ~Numbered(BaseThing_name(heap, S[j]), L))
                      => BaseThing_name(heap, x) = Append(L, InsertionIndex(G, x))
                   /\ Len(G) = 1 => BaseThing_name(heap, x) = L

\* C17 as amended: the other nodes are asked for their labels, the index is
\* the position in root.descendants, and a unique label is kept when it is not
\* M_(i) for the label M of another node of the kind.
C17_GroupNames ==
    Registered =>
        \A ty \in {"Joint", "Camera", "Body"} :
            \A i \in 1..Len(Scoped(heap, last.P, ty)) :
                LET S == Scoped(heap, last.P, ty)
                    x == S[i]
                    L == heap.name[x]
                    G == Synonymous(heap, last.P, ty, L)
                IN /\ (/\ Len(G) >= 2
                       /\ \A j \in 1..Len(S) : ~Numbered(heap.name[S[j]], L))
                      => BaseThing_name(heap, x) = Append(L, FirstIndex(G, x) - 1)
                   /\ (/\ Len(G) = 1
                       /\ \A j \in 1..Len(S) : ~Numbered(L, heap.name[S[j]]))
                      => BaseThing_name(heap, x) = L

\* C17, the case reached: the two copies of the template "leaf" are
\* registered as "leaf_(0)" and "leaf_(1)", in the order they were attached.
C17_LeavesNamed ==
    /\ Registered
    /\ heap.children[1].bodies = <<3, 4>>
    /\ heap.name[2] = <<"leaf">>
    /\ heap.name[3] = <<"leaf">>
    /\ heap.name[4] = <<"leaf">>
    /\ BaseThing_name(heap, 2) = <<"leaf">>
    /\ BaseThing_name(heap, 3) = <<"leaf", 0>>
    /\ BaseThing_name(heap, 4) = <<"leaf", 1>>

\* C11: setting the label of a node whose root is a finalized tree fails and
\* leaves the label and all exposed names unchanged, however and whenever the
\* node entered the tree.
C11_LabelFrozen ==
    (/\ nops > 0
     /\ last.op = "name"
     /\ prev.kind[root(prev, last.x)] = "World"
     /\ prev.built[root(prev, last.x)])
    => /\ last.err # "OK"
       /\ \A y \in Nodes :
           /\ heap.name[y] = prev.name[y]
           /\ BaseThing_name(heap, y) = BaseThing_name(prev, y)

\* C11, the case reached: a body that was attached to the World after build
\* is given a new label, and the edit completes.
C11_LateNodeRenamed ==
    /\ nops = 2
    /\ hist[1].op = "attach"
    /\ hist[1].err = "OK"
    /\ hist[1].pre.built[hist[1].P]
    /\ last.op = "name"
    /\ last.err = "OK"
    /\ last.x # root(prev, last.x)
    /\ root(prev, last.x) = hist[1].P
    /\ prev.built[hist[1].P]
    /\ heap.name[last.x] # prev.name[last.x]
    /\ BaseThing_name(heap, last.x) # BaseThing_name(prev, last.x)

\* C11, the other case: the label of a body that was registered by build is
\* edited, the edit raises and nothing changes.
C11_RegisteredRefused ==
    /\ nops > 0
    /\ last.op = "name"
    /\ prev.name_scope[last.x].set
    /\ prev.built[root(prev, last.x)]
    /\ last.err = "AssertionError"
    /\ heap.name = prev.name

(***************************************************************************)
(* Shared resources.                                                       *)
(***************************************************************************)
\* The last operation was A.vertecies = v, it returned, and before it the
\* asset of A had two or more parents, A among them, and was not frozen.
WroteShared ==
    /\ nops > 0
    /\ last.op = "vertecies"
    /\ last.err = "OK"
    /\ Cardinality(References(prev, prev.asset[last.x])) >= 2
    /\ last.x \in References(prev, prev.asset[last.x])
    /\ ~prev.freeze[prev.asset[last.x]]

\* What the copy-on-write promises for A = last.x, R = the asset of A before
\* the write and v = last.P.
CopiedOnWrite ==
    LET A == last.x
        R == prev.asset[last.x]
    IN /\ MeshAsset_vertecies(heap, R) = MeshAsset_vertecies(prev, R)
       /\ \A B \in References(prev, R) \ {A} :
              /\ prev.asset[B] = R
              /\ heap.asset[B] = R
              /\ B \in References(heap, R)
       /\ heap.asset[A] # R
       /\ heap.asset[A] \notin Live(prev)
       /\ MeshAsset_vertecies(heap, heap.asset[A]) = last.P
       /\ References(heap, heap.asset[A]) = {A}
       /\ A \notin References(heap, R)

\* C12: if a shared resource R has two or more owners, A and B among them,
\* and is not frozen, a mutation of the payload through A leaves R's payload
\* and B's reference to R unchanged; afterwards A references a new resource
\* R' that carries the new payload and whose only owner is A, and A is no
\* longer an owner of R.
C12_CopyOnWrite == WroteShared => CopiedOnWrite

\* C12 where the cache that holds R's payload is not frozen either: there the
\* code keeps the promise.
C12_CopyOnWriteUnfrozen ==
    (WroteShared /\ ~prev.freeze[prev.cache[prev.asset[last.x]]]) => CopiedOnWrite

\* C12, the failing case reached: the cache of the shared asset was frozen;
\* the Mesh was moved to a new asset, and the vertecies written through it
\* were dropped.
C12_WriteDropped ==
    /\ WroteShared
    /\ prev.freeze[prev.cache[prev.asset[last.x]]]
    /\ heap.asset[last.x] # prev.asset[last.x]
    /\ References(heap, heap.asset[last.x]) = {last.x}
    /\ MeshAsset_vertecies(heap, heap.asset[last.x]) # last.P
    /\ MeshAsset_vertecies(heap, heap.asset[last.x])
           = MeshAsset_vertecies(prev, prev.asset[last.x])

\* C12, the usual case reached: a Mesh that shared its asset with another
\* Mesh was given new vertecies, and now has an asset of its own with them,
\* while the other Mesh still sees the old ones.
C12_WrittenThroughOwner ==
    /\ WroteShared
    /\ ~prev.freeze[prev.cache[prev.asset[last.x]]]
    /\ heap.asset[last.x] # prev.asset[last.x]
    /\ MeshAsset_vertecies(heap, heap.asset[last.x]) = 2
    /\ \E B \in Nodes :
        /\ B # last.x
        /\ heap.kind[B] = "Mesh"
        /\ heap.asset[B] = prev.asset[last.x]
        /\ MeshAsset_vertecies(heap, heap.asset[B]) = 1

\* The last operation was u._prepare_for_modification(x) for u = last.P and
\* x = last.x, and it returned.
Prepared ==
    /\ nops > 0
    /\ last.op = "prepare"
    /\ last.err = "OK"

\* C13: prepare_for_mutation(resource, node) returns a resource: the same
\* resource when node is its sole owner or the resource is frozen, and
\* otherwise the newly allocated clone whose owner node has become.
C13_PrepareReturnsResource ==
    Prepared =>
        IF References(prev, last.P) = {last.x} \/ prev.freeze[last.P]
        THEN last.ret = last.P
        ELSE /\ last.ret \in Live(heap) \ Live(prev)
             /\ heap.kind[last.ret] = prev.kind[last.P]
             /\ last.x \in References(heap, last.ret)

\* C13, the case reached: a resource with two parents that is not frozen was
\* prepared for one of them; the parent now refers to a clone that it alone
\* owns, and the call returned None.
C13_PrepareReturnedNone ==
    /\ Prepared
    /\ Cardinality(References(prev, last.P)) > 1
    /\ ~prev.freeze[last.P]
    /\ last.ret = None
    /\ Referenced(heap, last.x, last.P) \in Live(heap) \ Live(prev)
    /\ References(heap, Referenced(heap, last.x, last.P)) = {last.x}
    /\ last.x \notin References(heap, last.P)

\* C30: register terminates for every tree and every assignment of user
\* labels, labels that match the resolver's "_(i)" suffix included: the
\* renaming loop reaches, after finitely many rounds, a state in which every
\* group has size 1, so no build or register runs out of rounds.
C30_RegisterTerminates ==
    (nops > 0 /\ last.op \in {"build", "register"})
    => /\ last.err = "OK"
       /\ \A ty \in {"Joint", "Camera", "Body"} :
              \A n \in DOMAIN synonyms(heap, Scoped(heap, last.P, ty)) :
                  Len(synonyms(heap, Scoped(heap, last.P, ty))[n]) = 1

\* C30, the case reached: register returned after a cascade in which a body
\* labelled without a suffix was renamed in three rounds.
C30_CascadeEnded ==
    /\ Registered
    /\ \E x \in Nodes :
        /\ Len(heap.name[x]) = 1
        /\ Len(BaseThing_name(heap, x)) = 4

\* C29: after any sequence of owner additions, copies of owner nodes and
\* copy-on-write mutations, each resource's owner set contains exactly the
\* nodes whose reference field points to that resource, so every owner node
\* is in the owner set of exactly one resource.
C29_OwnershipConsistent ==
    \A u \in Live(heap) :
        IsUnique(heap, u) =>
            \A x \in Live(heap) :
                x \in References(heap, u) <=> Referenced(heap, x, u) = u

\* C29, the failing case reached: a MeshAsset was copied; the copy refers to
\* a cache of its own, and is an owner of the original's cache as well.
C29_OwnerOfTwoCaches ==
    /\ nops > 0
    /\ last.op = "copy"
    /\ last.err = "OK"
    /\ heap.kind[last.x] = "MeshAsset"
    /\ heap.kind[last.ret] = "MeshAsset"
    /\ heap.cache[last.ret] # heap.cache[last.x]
    /\ last.ret \in References(heap, heap.cache[last.ret])
    /\ last.ret \in References(heap, heap.cache[last.x])
    /\ last.x \in References(heap, heap.cache[last.ret])

(***************************************************************************)
(* attach by default, and the agreement of parents and collections.        *)
(***************************************************************************)
\* x is an element of a role collection of P.
Holds(h, P, x) ==
    \E i \in 1..Len(Roles(h.kind[P])) : Contains(h.children[P][Roles(h.kind[P])[i]], x)

\* C26: attach called without a copy argument, on a receiver of any kind,
\* the root World included, inserts a copy of the item and leaves the passed
\* item where it was: its parent edge is unchanged and the call did not make
\* it an element of the receiver's role collections.
C26_AttachCopiesByDefault ==
    (nops > 0 /\ last.op = "attach()" /\ last.err = "OK")
    => /\ heap.parent[last.x] = prev.parent[last.x]
       /\ Holds(heap, last.P, last.x) <=> Holds(prev, last.P, last.x)
       /\ \E c \in Live(heap) \ Live(prev) :
              /\ Holds(heap, last.P, c)
              /\ heap.kind[c] = heap.kind[last.x]

\* C26, the failing case reached: W.attach(F) on a World moved the free body
\* F itself under W, and no copy was made.
C26_WorldAttachMoves ==
    /\ nops > 0
    /\ last.op = "attach()"
    /\ last.err = "OK"
    /\ heap.kind[last.P] = "World"
    /\ prev.parent[last.x] = None
    /\ ~Holds(prev, last.P, last.x)
    /\ heap.parent[last.x] = last.P
    /\ Holds(heap, last.P, last.x)
    /\ Live(heap) = Live(prev)

\* C26, the other case: B.attach(F) on a Body inserted a copy and left F.
C26_BodyAttachCopies ==
    /\ nops > 0
    /\ last.op = "attach()"
    /\ last.err = "OK"
    /\ heap.kind[last.P] = "Body"
    /\ prev.parent[last.x] = None
    /\ heap.parent[last.x] = None
    /\ ~Holds(heap, last.P, last.x)
    /\ \E c \in Live(heap) \ Live(prev) : Holds(heap, last.P, c) /\ heap.parent[c] = last.P

\* The number of places at which x occurs in the role collections of P.
Occurrences(h, P, x) ==
    Cardinality({<<i, j>> \in (1..Len(Roles(h.kind[P]))) \X (1..MaxNodes) :
                    /\ j <= Len(h.children[P][Roles(h.kind[P])[i]])
                    /\ h.children[P][Roles(h.kind[P])[i]][j] = x})

\* C27: after any sequence of attach, detach, role-collection assignment and
\* copy operations, a node n has parent p if and only if n occurs exactly
\* once in exactly one role collection of p; in particular the node returned
\* by copy() of an attached node has no parent.
C27_ParentsAgree ==
    /\ \A n \in Live(heap) : \A p \in Live(heap) :
           heap.parent[n] = p <=> Occurrences(heap, p, n) = 1
    /\ \A n \in Live(heap) : \A p \in Live(heap) : Occurrences(heap, p, n) <= 1
    /\ (nops > 0 /\ last.op = "copy" /\ last.err = "OK" /\ prev.parent[last.x] # None)
           => heap.parent[last.ret] = None

\* C27, the failing case reached: the copy of an attached node names the
\* original's parent as its parent and occurs in none of its collections.
C27_CopyKeepsParent ==
    /\ nops > 0
    /\ last.op = "copy"
    /\ last.err = "OK"
    /\ prev.parent[last.x] # None
    /\ last.ret \in Live(heap) \ Live(prev)
    /\ heap.parent[last.ret] = prev.parent[last.x]
    /\ Occurrences(heap, prev.parent[last.x], last.ret) = 0

\* The number of occurrences of the camera c in body b's targeting collection.
Targeting(h, b, c) ==
    Cardinality({i \in 1..Len(h.targeting_cameras[b]) : h.targeting_cameras[b][i] = c})

\* The operations so far are target assignments, attaches and detaches, and
\* the last of them completed.
OnlyTargetAttachDetach ==
    /\ \A i \in 1..nops : hist[i].op \in {"target", "attach", "detach"}
    /\ last.err = "OK"

\* C28: after any sequence of target assignments, attach and detach
\* operations, a camera c occurs in body b's targeting collection, exactly
\* once, if and only if c's target is b; otherwise it does not occur there.
C28_BackReferencesAgree ==
    OnlyTargetAttachDetach
        => \A c \in Live(heap), b \in Live(heap) :
              (heap.kind[c] = "Camera" /\ heap.kind[b] = "Body")
                  => Targeting(heap, b, c) = (IF heap.target[c] = b THEN 1 ELSE 0)

\* C28 failing run: a detach or attach of a camera with a target raised
\* after it had taken the camera out of its target's collection; a later
\* operation completes and the camera still has the target that no longer
\* lists it.
C28_TargetNotListed ==
    /\ nops = 2
    /\ OnlyTargetAttachDetach
    /\ hist[1].err = "ValueError"
    /\ \E c \in Live(heap) :
          /\ heap.kind[c] = "Camera"
          /\ heap.target[c] # None
          /\ Targeting(heap, heap.target[c], c) = 0

(***************************************************************************)
(* View, FunctionHandle and AllView: attribute access to many Things at    *)
(* once.  A View is the value with class "View" whose items are its        *)
(* elements; a raised exception is the value whose class is its name.      *)
(* numpy arrays and strings are left out of the values.                    *)
(***************************************************************************)
ThingKinds == {"World", "Body", "Joint", "Camera"}
Exceptions == {"AttributeError", "TypeError", "ValueError", "AssertionError",
               "RecursionError", "Pool"}
Raised(e) == Value(e, 0, "", <<>>)
IsRaised(v) == v.t \in Exceptions
ThingValue(h, x) == Value(h.kind[x], x, "", <<>>)
Method(x, f) == Value("method", x, f, <<>>)
Class(t) == Value("type", 0, t, <<>>)
Ids(items) == [i \in 1..Len(items) |-> items[i].v]

\* View.__init__: the elements, first occurrences only.
View(h, elements) ==
    Value("View", 0, "", [i \in 1..Len(Dedupe(elements)) |->
                              ThingValue(h, Dedupe(elements)[i])])

\* FunctionHandle.__init__
FunctionHandle(functions) == Value("FunctionHandle", 0, "", functions)

\* getattr(x, attr) for the fps and the target of a Camera, a children
\* attribute of a NodeThing, and the method attach; Absent where the lookup
\* raises AttributeError.
getattr(h, x, attr) ==
    CASE attr = "fps" -> h.fps[x]
      [] attr = "target" ->
            IF h.kind[x] # "Camera" THEN Absent
            ELSE IF h.target[x] = None THEN NoneValue
            ELSE ThingValue(h, h.target[x])
      [] attr \in {"joints", "cameras", "bodies"} ->
            IF \E i \in 1..Len(Roles(h.kind[x])) : Roles(h.kind[x])[i] = attr
            THEN View(h, h.children[x][attr])
            ELSE Absent
      [] attr = "attach" -> IF IsNodeThing(h, x) THEN Method(x, attr) ELSE Absent
      [] OTHER -> Absent

hasattr(h, x, attr) == getattr(h, x, attr).t # "absent"

\* The fps setter of a Camera.
Camera_fps_fset(h, x, fps) ==
    IF ~Ok(h) THEN h
    ELSE IF fps.t \notin {"int", "float", "NoneType"} THEN Raise(h, "TypeError")
    ELSE IF fps.t # "NoneType" /\ fps.v <= 0 THEN Raise(h, "ValueError")
    ELSE [h EXCEPT !.fps[x] = IF fps.t = "NoneType" THEN NoneValue ELSE FloatValue(fps.v)]

\* element.__setattr__(attr, val): the property setter of a Camera, the
\* children assignment of a NodeThing, or a plain instance attribute.
Thing_setattr(h, x, attr, val, d) ==
    IF ~Ok(h) THEN h
    ELSE IF attr = "fps"
    THEN IF h.kind[x] = "Camera" THEN Camera_fps_fset(h, x, val)
         ELSE [h EXCEPT !.fps[x] = val]
    ELSE IF attr = "target"
    THEN IF val.t = "NoneType" THEN CyclicalThing_setattr(h, x, None, d)
         ELSE IF val.t = "Body" THEN CyclicalThing_setattr(h, x, val.v, d)
         ELSE IF h.IGNORE_CHECKS[x] THEN Raise(h, "TypeError")
         ELSE IF h.parent[x] = None THEN Raise(h, "ValueError")
         ELSE Raise(h, "AttributeError")
    ELSE IF val.t \in ThingKinds THEN NodeThing_setattr(h, x, attr, <<val.v>>, d)
    ELSE IF val.t \in {"list", "View"} THEN NodeThing_setattr(h, x, attr, Ids(val.items), d)
    ELSE Raise(h, "ValueError")

\* The else branch of View.__getattr__: x.__getattribute__(attr) of the
\* elements in turn, each result iterated.  A missing attribute (a children
\* attribute is always missing here) raises AttributeError, a value that is
\* not iterable TypeError.
RECURSIVE View_getattribute(_, _, _, _)
View_getattribute(h, elements, attr, i) ==
    IF i > Len(elements) THEN Value("View", 0, "", <<>>)
    ELSE IF attr \notin {"fps", "target"} \/ ~hasattr(h, elements[i], attr)
    THEN Raised("AttributeError")
    ELSE IF getattr(h, elements[i], attr).t # "list" THEN Raised("TypeError")
    ELSE View_getattribute(h, elements, attr, i + 1)

\* View.__getattr__ that raises when the values are of mixed classes.
View_getattr_homogeneous(h, elements, attr, vals) ==
    IF \A i \in 1..Len(vals) : vals[i].t = "View"
    THEN View(h, Flatten([i \in 1..Len(vals) |-> Ids(vals[i].items)]))
    ELSE IF \A i \in 1..Len(vals) : vals[i].t \in ThingKinds
    THEN View(h, Ids(vals))
    ELSE IF \A i \in 1..Len(vals) : vals[i].t = "method"
    THEN FunctionHandle(vals)
    ELSE IF \A i \in 1..Len(vals) : vals[i].t \notin ThingKinds \cup {"View", "method"}
    THEN ListValue(vals)
    ELSE Raised("AttributeError")

\* View.__getattr__ with the classes of the values handed in.
View_getattr_of(h, elements, attr, vals) ==
    IF \A i \in 1..Len(vals) : vals[i].t = "View"
    THEN View(h, Flatten([i \in 1..Len(vals) |-> Ids(vals[i].items)]))
    ELSE IF \A i \in 1..Len(vals) : vals[i].t \in ThingKinds
    THEN View(h, Ids(vals))
    ELSE IF \A i \in 1..Len(vals) : vals[i].t = "method"
    THEN FunctionHandle(vals)
    ELSE IF \A i \in 1..Len(vals) : vals[i].t = "NoneType"
    THEN ListValue([i \in 1..Len(vals) |-> NoneValue])
    ELSE ListValue(vals)

\* View.__getattr__
View_getattr(h, elements, attr) ==
    IF Len(elements) = 0 THEN Raised("AttributeError")
    ELSE IF \A i \in 1..Len(elements) : hasattr(h, elements[i], attr)
    THEN View_getattr_of(h, elements, attr,
                         [i \in 1..Len(elements) |-> getattr(h, elements[i], attr)])
    ELSE View_getattribute(h, elements, attr, 1)

\* View.__nesting_structure
RECURSIVE __nesting_structure(_)
__nesting_structure(element) ==
    IF element.t \in {"list", "View"}
    THEN ListValue([i \in 1..Len(element.items) |-> __nesting_structure(element.items[i])])
    ELSE Class(element.t)

\* View.__compatible_nesting
__compatible_nesting(view_structure, val_structure) ==
    IF val_structure.t = "type" THEN FALSE
    ELSE IF Len(val_structure.items) # Len(view_structure.items) THEN FALSE
    ELSE IF /\ ~\E i \in 1..Len(val_structure.items) : val_structure.items[i] = view_structure
            /\ val_structure # view_structure
    THEN FALSE
    ELSE TRUE

\* View.__nesting_value for a View of n elements: the values to assign, as a
\* list, or the exception raised.
__nesting_value(view_attr, val, n) ==
    IF __compatible_nesting(__nesting_structure(view_attr), __nesting_structure(val))
    THEN ListValue(val.items)
    ELSE IF val.t = "View"
    THEN IF Len(val.items) # 1 THEN Raised("ValueError")
         ELSE ListValue([i \in 1..n |-> val.items[1]])
    ELSE ListValue([i \in 1..Len(view_attr.items) |-> val])

\* The loop of View.__setattr__ over zip(self, values), from position i.
RECURSIVE View_setattr_each(_, _, _, _, _, _)
View_setattr_each(h, elements, attr, vals, i, d) ==
    IF ~Ok(h) \/ i > Len(elements) \/ i > Len(vals) THEN h
    ELSE View_setattr_each(Thing_setattr(h, elements[i], attr, vals[i], d),
                           elements, attr, vals, i + 1, d)

\* View.__setattr__ after the values to assign were computed.
View_setattr_values(h, elements, attr, vals, d) ==
    IF IsRaised(vals) THEN Raise(h, vals.t)
    ELSE View_setattr_each(h, elements, attr, vals.items, 1, d)

\* View.__setattr__ after self.__getattr__(attr) returned view_attr.
View_setattr_of(h, elements, attr, view_attr, val, d) ==
    IF ~Ok(h) THEN h
    ELSE IF IsRaised(view_attr) THEN Raise(h, view_attr.t)
    ELSE IF view_attr.t = "FunctionHandle" THEN Raise(h, "TypeError")
    ELSE View_setattr_values(h, elements, attr,
                             __nesting_value(view_attr, val, Len(elements)), d)

\* View.__setattr__
View_setattr(h, elements, attr, val, d) ==
    IF ~Ok(h) THEN h
    ELSE View_setattr_of(h, elements, attr, View_getattr(h, elements, attr), val, d)

\* One call function(*arg, **kwarg) of a bound attach: NodeThing.attach takes
\* the items and the keywords copy (default True) and globally, which only
\* moves the frame of the child.
FunctionHandle_call(h, function, arg, kwarg, d) ==
    IF ~Ok(h) THEN h
    ELSE IF \E k \in 1..Len(kwarg) :
                kwarg[k].key \notin {"copy", "globally"} \/ kwarg[k].val.t # "bool"
    THEN Raise(h, "TypeError")
    ELSE attach(h, function.v, Ids(arg),
                \A k \in 1..Len(kwarg) : kwarg[k].key = "copy" => kwarg[k].val.v = 1,
                d)

\* The list comprehension of FunctionHandle.distribute from position i: the
\* i-th function with the i-th entry of every sequence.
RECURSIVE FunctionHandle_distribute_each(_, _, _, _, _, _)
FunctionHandle_distribute_each(h, functions, args, kwargs, i, d) ==
    IF ~Ok(h) \/ i > Len(functions) THEN h
    ELSE FunctionHandle_distribute_each(
             FunctionHandle_call(h, functions[i],
                                 [j \in 1..Len(args) |-> args[j][i]],
                                 [k \in 1..Len(kwargs) |->
                                     [key |-> kwargs[k].key, val |-> kwargs[k].vals[i]]],
                                 d),
             functions, args, kwargs, i + 1, d)

\* len(kw_list): zip(*kwargs.values()) ends with the shortest sequence.
kw_list_len(kwargs) ==
    IF kwargs = <<>> THEN 0
    ELSE CHOOSE n \in {Len(kwargs[k].vals) : k \in 1..Len(kwargs)} :
            \A k \in 1..Len(kwargs) : n <= Len(kwargs[k].vals)

\* The assertions of FunctionHandle.distribute.
FunctionHandle_distribute_assert(functions, args, kwargs) ==
    /\ \A j \in 1..Len(args) : Len(args[j]) = Len(functions)
    /\ kwargs # <<>> => Len(functions) = kw_list_len(kwargs)

\* FunctionHandle.distribute(*args, **kwargs); every call returns None, and
\* so does distribute.
FunctionHandle_distribute(h, functions, args, kwargs, d) ==
    IF ~Ok(h) THEN h
    ELSE IF ~FunctionHandle_distribute_assert(functions, args, kwargs)
    THEN Raise(h, "AssertionError")
    ELSE FunctionHandle_distribute_each(h, functions, args, kwargs, 1, d)

\* AllView.__init__: the descendants of P, one descendants list after the
\* other in the order of the keys, first occurrences only.
AllView(h, P) ==
    Dedupe(IF h.kind[P] = "World"
           THEN DescendantsOf(h, P, "cameras", MaxNodes)
                \o DescendantsOf(h, P, "bodies", MaxNodes)
                \o DescendantsOf(h, P, "joints", MaxNodes)
           ELSE DescendantsOf(h, P, "joints", MaxNodes)
                \o DescendantsOf(h, P, "cameras", MaxNodes)
                \o DescendantsOf(h, P, "bodies", MaxNodes))

\* list(filter(lambda x: hasattr(x, attr), self))
WithAttr(h, elements, attr) ==
    SelectSeq(elements, LAMBDA x : hasattr(h, x, attr))

\* AllView.__getattr__
AllView_getattr(h, P, attr) ==
    IF attr \in {"joints", "cameras", "bodies"}
    THEN View(h, DescendantsOf(h, P, attr, MaxNodes))
    ELSE View_getattr(h, WithAttr(h, AllView(h, P), attr), attr)

\* AllView.__setattr__, its if statement, entered with the heap that the
\* first statement left.
AllView_setattr_if(h, P, attr, val, d) ==
    IF ~Ok(h) THEN h
    ELSE IF \A i \in 1..Len(AllView(h, P)) : hasattr(h, AllView(h, P)[i], attr)
    THEN View_setattr_of(h, AllView(h, P), attr, AllView_getattr(h, P, attr), val, d)
    ELSE View_setattr(h, WithAttr(h, AllView(h, P), attr), attr, val, d)

\* AllView.__setattr__: its first statement is View.__setattr__ on all
\* elements with the get-result of AllView.__getattr__.
AllView_setattr(h, P, attr, val, d) ==
    AllView_setattr_if(
        View_setattr_of(h, AllView(h, P), attr, AllView_getattr(h, P, attr), val, d),
        P, attr, val, d)

(***************************************************************************)
(* Views on their own: a Body with a joint, two cameras and two bodies, a  *)
(* free Body, and the statements that read, assign and call through a View.*)
(***************************************************************************)
\* T(1){joints: [j(2)], cameras: [c(3), e(4)], bodies: [A(5), B(6)]} and the
\* bodies D(7) and G(8).
SceneView ==
    Att(Att(Att(Att(Att(
        Make(<<"Body", "Joint", "Camera", "Camera", "Body", "Body", "Body", "Body">>),
        1, 2), 1, 3), 1, 4), 1, 5), 1, 6)

\* D and G free, G the child of A, or G the child of A and D the child of B.
SceneViews == {SceneView, Att(SceneView, 5, 8), Att(Att(SceneView, 5, 8), 6, 7)}

\* The targets and the frame rates the two cameras were given.
ViewScenes ==
    {[Tgt(Tgt(Camera_fps_fset(Camera_fps_fset(s, 3, f[1]), 4, f[2]), 3, t[1]), 4, t[2])
         EXCEPT !.ret = None] :
        s \in SceneViews,
        t \in {<<None, None>>, <<5, 5>>, <<5, 6>>, <<5, None>>},
        f \in {<<FloatValue(30), FloatValue(30)>>, <<NoneValue, NoneValue>>,
               <<FloatValue(30), NoneValue>>}}

InitView ==
    /\ heap \in ViewScenes
    /\ hist = <<>>

\* The values a statement assigns to attr.
Assigned(attr) ==
    CASE attr = "fps" ->
            {FloatValue(60), IntValue(60), NoneValue,
             ListValue(<<FloatValue(60)>>),
             ListValue(<<FloatValue(60), FloatValue(24)>>),
             ListValue(<<IntValue(60), IntValue(24)>>),
             ListValue(<<FloatValue(60), NoneValue>>),
             ListValue(<<FloatValue(60), FloatValue(24), FloatValue(12)>>)}
      [] attr = "target" ->
            {NoneValue, ThingValue(heap, 5), ThingValue(heap, 6),
             ListValue(<<ThingValue(heap, 6), ThingValue(heap, 5)>>),
             ListValue(<<ThingValue(heap, 6), NoneValue>>),
             View(heap, <<6>>), View(heap, <<6, 5>>)}
      [] OTHER ->
            {ThingValue(heap, 7), ListValue(<<ThingValue(heap, 7)>>),
             ListValue(<<>>), View(heap, <<7>>)}

\* The sequences a statement hands to distribute.
Positional == {<<>>, <<<<7>>>>, <<<<7, 7>>>>, <<<<7, 3>>>>, <<<<7, 7, 7>>>>}
Keywords ==
    {<<>>,
     <<[key |-> "copy", vals |-> <<BoolValue(FALSE), BoolValue(TRUE)>>]>>,
     <<[key |-> "copy", vals |-> <<BoolValue(FALSE)>>]>>,
     <<[key |-> "copy", vals |-> <<BoolValue(FALSE), BoolValue(FALSE)>>],
       [key |-> "globally", vals |-> <<BoolValue(FALSE), BoolValue(FALSE), BoolValue(FALSE)>>]>>,
     <<[key |-> "copy", vals |-> <<BoolValue(FALSE), BoolValue(TRUE), BoolValue(TRUE)>>],
       [key |-> "globally", vals |-> <<BoolValue(FALSE)>>]>>}

\* Number of statements on a View in one behaviour.
MaxStatements == 1

\* A statement on a View: its outcome, with the value it returned.
CommitView(op, P, role, attr, val, args, kwargs, r, ret) ==
    /\ nops < MaxStatements
    /\ r.err # "Pool"
    /\ heap' = [r EXCEPT !.err = "OK", !.ret = None]
    /\ hist' = Append(hist, [op |-> op, P |-> P, x |-> None, cp |-> FALSE, role |-> role,
                             attr |-> attr, val |-> val, args |-> args, kwargs |-> kwargs,
                             err |-> IF IsRaised(ret) THEN ret.t ELSE r.err,
                             ret |-> IF r.err = "OK" /\ ~IsRaised(ret) THEN ret ELSE NoneValue,
                             pre |-> heap])

ViewRoles == {"joints", "cameras", "bodies"}

\* P.<role>.<attr>
ViewGet ==
    \E P \in Bodies, role \in ViewRoles,
       attr \in {"fps", "target", "joints", "cameras", "bodies", "attach"} :
        CommitView("view.get", P, role, attr, NoneValue, <<>>, <<>>, heap,
                   View_getattr(heap, Ids(getattr(heap, P, role).items), attr))

\* P.<role>.<attr> = val
ViewSet ==
    \E P \in Bodies, role \in ViewRoles, attr \in {"fps", "target", "bodies"} :
        \E val \in Assigned(attr) :
            CommitView("view.set", P, role, attr, val, <<>>, <<>>,
                       View_setattr(heap, Ids(getattr(heap, P, role).items), attr, val,
                                    RecursionLimit),
                       NoneValue)

\* P.<role>.attach.distribute(*args, **kwargs)
Distribute ==
    \E P \in Bodies, role \in {"joints", "bodies"}, args \in Positional, kwargs \in Keywords :
        /\ View_getattr(heap, Ids(getattr(heap, P, role).items), "attach").t = "FunctionHandle"
        /\ CommitView("distribute", P, role, "attach", NoneValue,
                      [j \in 1..Len(args) |-> [i \in 1..Len(args[j]) |-> ThingValue(heap, args[j][i])]],
                      kwargs,
                      FunctionHandle_distribute(
                          heap,
                          View_getattr(heap, Ids(getattr(heap, P, role).items), "attach").items,
                          [j \in 1..Len(args) |-> [i \in 1..Len(args[j]) |-> ThingValue(heap, args[j][i])]],
                          kwargs, RecursionLimit),
                      NoneValue)

\* P.all.fps = val
AllViewSet ==
    \E P \in Bodies, val \in Assigned("fps") :
        CommitView("all.set", P, "all", "fps", val, <<>>, <<>>,
                   AllView_setattr(heap, P, "fps", val, RecursionLimit), NoneValue)

NextView ==
    \/ ViewGet
    \/ ViewSet
    \/ Distribute
    \/ AllViewSet

SpecView == InitView /\ [][NextView]_vars

\* The elements of the View P.<role> in the heap h.
Elements(h, P, role) == Ids(getattr(h, P, role).items)

\* A list of n values that the fps setter accepts one by one.
ScalarList(val, n) ==
    /\ val.t = "list"
    /\ Len(val.items) = n
    /\ \A i \in 1..n : val.items[i].t \in {"int", "float", "NoneType"}

\* The value an fps reads as after v was assigned to it.
Stored(v) == IF v.t = "NoneType" THEN NoneValue ELSE FloatValue(v.v)

\* C21: for a View of N cameras and a list of N scalars, view.fps = [v0..]
\* completes and sets the fps of the i-th element to the i-th value,
\* whatever the cameras' frame rates were before.
C21_OneToOne ==
    (/\ nops > 0 /\ last.op = "view.set" /\ last.attr = "fps" /\ last.role = "cameras"
     /\ Elements(prev, last.P, "cameras") # <<>>
     /\ ScalarList(last.val, Len(Elements(prev, last.P, "cameras"))))
        => /\ last.err = "OK"
           /\ \A i \in 1..Len(Elements(prev, last.P, "cameras")) :
                 heap.fps[Elements(prev, last.P, "cameras")[i]] = Stored(last.val.items[i])

\* C21 failing run: two cameras without a frame rate are assigned one frame
\* rate each; the whole list is handed to the first camera's setter, which
\* raises TypeError, and no frame rate changes.
C21_ListHandedToElement ==
    /\ nops > 0 /\ last.op = "view.set" /\ last.attr = "fps" /\ last.role = "cameras"
    /\ last.val = ListValue(<<FloatValue(60), FloatValue(24)>>)
    /\ Elements(prev, last.P, "cameras") = <<3, 4>>
    /\ prev.fps[3] = NoneValue /\ prev.fps[4] = NoneValue
    /\ last.err = "TypeError"
    /\ heap.fps = prev.fps

\* element.__setattr__(attr, val) for every element of the list in turn.
SetEach(h, elements, attr, val) ==
    View_setattr_each(h, elements, attr, [i \in 1..Len(elements) |-> val], 1,
                      RecursionLimit)

\* C22: for a View of N >= 1 elements, view.attr = v with a scalar v for the
\* plain attribute fps, or a single node v for a children attribute, assigns
\* v to the attribute of every one of the N elements in turn, whatever the
\* elements hold at the moment.
C22_OneToMany ==
    (/\ nops > 0 /\ last.op = "view.set"
     /\ Elements(prev, last.P, last.role) # <<>>
     /\ \A i \in 1..Len(Elements(prev, last.P, last.role)) :
            hasattr(prev, Elements(prev, last.P, last.role)[i], last.attr)
     /\ \/ last.attr = "fps" /\ last.val.t \in {"int", "float", "NoneType"}
        \/ last.attr = "bodies" /\ last.val.t \in ThingKinds)
        => /\ last.err = SetEach(prev, Elements(prev, last.P, last.role),
                                 last.attr, last.val).err
           /\ heap = [SetEach(prev, Elements(prev, last.P, last.role),
                              last.attr, last.val) EXCEPT !.err = "OK", !.ret = None]

\* C22 failing run: the two bodies of the View have no children, the
\* assignment of the body D to their bodies completes, and D is attached
\* to neither.
C22_NoElementAssigned ==
    /\ nops > 0 /\ last.op = "view.set" /\ last.attr = "bodies"
    /\ last.val = ThingValue(prev, 7)
    /\ Elements(prev, last.P, last.role) = <<5, 6>>
    /\ prev.children[5].bodies = <<>> /\ prev.children[6].bodies = <<>>
    /\ last.err = "OK"
    /\ heap = prev

\* The callables that P.<role>.attach wraps in the heap h.
Wrapped(h, P, role) == View_getattr(h, Elements(h, P, role), "attach").items

\* C23: handle.distribute over N wrapped callables, when every positional
\* and every keyword sequence has N entries, calls the i-th callable with the
\* i-th entry of each sequence; when some sequence has another length it
\* fails and calls nothing.
C23_Distribute ==
    (nops > 0 /\ last.op = "distribute")
        => IF /\ \A j \in 1..Len(last.args) :
                    Len(last.args[j]) = Len(Wrapped(prev, last.P, last.role))
              /\ \A k \in 1..Len(last.kwargs) :
                    Len(last.kwargs[k].vals) = Len(Wrapped(prev, last.P, last.role))
           THEN /\ last.err = FunctionHandle_distribute_each(
                                  prev, Wrapped(prev, last.P, last.role),
                                  last.args, last.kwargs, 1, RecursionLimit).err
                /\ heap = [FunctionHandle_distribute_each(
                               prev, Wrapped(prev, last.P, last.role),
                               last.args, last.kwargs, 1, RecursionLimit)
                              EXCEPT !.err = "OK", !.ret = None]
           ELSE last.err # "OK" /\ heap = prev

\* C23 failing run: two wrapped attach methods, the items [D, D], copy with
\* two entries and globally with three; distribute completes and has moved D
\* to the second body.
C23_LongKeywordIgnored ==
    /\ nops > 0 /\ last.op = "distribute"
    /\ Len(Wrapped(prev, last.P, last.role)) = 2
    /\ Len(last.args) = 1 /\ Len(last.args[1]) = 2
    /\ \E k \in 1..Len(last.kwargs) : Len(last.kwargs[k].vals) = 3
    /\ last.err = "OK"
    /\ prev.parent[7] = None
    /\ heap.parent[7] = 6

\* The values getattr yields for the elements of P.<role> in the heap h.
Yielded(h, P, role, attr) ==
    [i \in 1..Len(Elements(h, P, role)) |-> getattr(h, Elements(h, P, role)[i], attr)]

\* Every element has the attribute, and the values are neither all children
\* Views, nor all nodes, nor all callables, nor all plain values.
Heterogeneous(vals) ==
    /\ vals # <<>>
    /\ \A i \in 1..Len(vals) : vals[i].t # "absent"
    /\ \E i \in 1..Len(vals) : vals[i].t # "View"
    /\ \E i \in 1..Len(vals) : vals[i].t \notin ThingKinds
    /\ \E i \in 1..Len(vals) : vals[i].t # "method"
    /\ \E i \in 1..Len(vals) : vals[i].t \in ThingKinds \cup {"View", "method"}

\* C24 as stated: the attribute get on a View whose elements yield values of
\* mixed kinds fails instead of returning a result.
C24_HeterogeneousFails ==
    (/\ nops > 0 /\ last.op = "view.get"
     /\ Heterogeneous(Yielded(prev, last.P, last.role, last.attr)))
        => last.err # "OK"

\* C24 amended: the attribute get on a View fails when the View is empty or
\* an element lacks the attribute; when every element has it the get
\* completes, and for values of mixed kinds it returns the list of the
\* elements' values in the order of the elements.
C24_HeterogeneousListed ==
    (nops > 0 /\ last.op = "view.get")
        => IF \/ Yielded(prev, last.P, last.role, last.attr) = <<>>
              \/ \E i \in 1..Len(Yielded(prev, last.P, last.role, last.attr)) :
                    Yielded(prev, last.P, last.role, last.attr)[i].t = "absent"
           THEN last.err # "OK"
           ELSE /\ last.err = "OK"
                /\ Heterogeneous(Yielded(prev, last.P, last.role, last.attr))
                      => last.ret = ListValue(Yielded(prev, last.P, last.role, last.attr))

\* C24 witness: the targets of two cameras, one of which targets the body A
\* and the other nothing, are read as the list [A, None].
C24_TargetsListed ==
    /\ nops > 0 /\ last.op = "view.get" /\ last.attr = "target"
    /\ Elements(prev, last.P, last.role) = <<3, 4>>
    /\ prev.target[3] = 5 /\ prev.target[4] = None
    /\ last.err = "OK"
    /\ last.ret = ListValue(<<ThingValue(prev, 5), NoneValue>>)

\* C25: P.all.fps = v with a scalar v changes the descendants of P that have
\* an fps and nothing else: each of them ends with v, a descendant without
\* fps is left without it, and the rest of the object graph is as before.
C25_AllViewFrame ==
    (/\ nops > 0 /\ last.op = "all.set" /\ last.attr = "fps"
     /\ last.val.t \in {"int", "float", "NoneType"})
        => /\ \A i \in 1..Len(AllView(prev, last.P)) :
                 heap.fps[AllView(prev, last.P)[i]]
                    = IF hasattr(prev, AllView(prev, last.P)[i], "fps")
                      THEN Stored(last.val)
                      ELSE Absent
           /\ [heap EXCEPT !.fps = prev.fps] = prev

\* C25 failing run: T.all.fps = 60.0 with the joint j among the descendants
\* of T; j had no fps and ends with the fps 60.0.
C25_JointGainsFps ==
    /\ nops > 0 /\ last.op = "all.set" /\ last.attr = "fps"
    /\ last.val = FloatValue(60)
    /\ last.P = 1
    /\ ~hasattr(prev, 2, "fps")
    /\ last.err = "OK"
    /\ heap.fps[2] = FloatValue(60)
    /\ heap.fps[3] = FloatValue(60) /\ heap.fps[4] = FloatValue(60)

====
